---- MODULE Spec2Model ----
(***************************************************************************)
(* Inventory module (ERPlora/module-inventory): products, stock movements, *)
(* the assistant tools that adjust stock, the low-stock signal handler,    *)
(* the stock-change hook helpers and category slugs.                       *)
(*                                                                         *)
(* Strings are sequences of one-character strings, so that strip, lower,   *)
(* capitalize, iexact/icontains and slugify are computed, not assumed.     *)
(***************************************************************************)
EXTENDS Integers, Sequences, FiniteSets, TLC

VARIABLES
    products,     \* inventory_product rows: id -> record
    movements,    \* inventory_stock_movement rows, in insertion order
    settings,     \* the hub's InventorySettings row
    hookLog,      \* invocations of the inventory.* action hooks, in order
    vetoing,      \* TRUE when a before_stock_change subscriber raises ValidationError
    alerts,       \* low_stock_alert signals sent, in order
    categories,   \* inventory_category rows, in insertion order
    req,          \* concurrent adjust_stock requests: request id -> position and locals
    last,         \* the last completed operation: its arguments, the state before, its result
    links,        \* inventory_product_categories rows (the many-to-many table): <<product, category>>
    settingsRows, \* inventory_settings rows of all hubs, in insertion order
    storeConfig,  \* the StoreConfig singleton of the configuration app
    rng,          \* the digits random.randint(0, 9) returns to the next generate_ean13
    stockAlerts,  \* inventory_stock_alert rows (StockAlert), in insertion order
    cmd           \* the populate_ean13 command: its position, loop variables and counters

vars == <<products, movements, settings, hookLog, vetoing, alerts, categories, req, last,
          links, settingsRows, storeConfig, rng, stockAlerts, cmd>>

(***************************************************************************)
(* Bounds of the model                                                     *)
(***************************************************************************)
MaxMovements == 3
MaxItems == 3
MaxFewMovements == 1
MaxHookCalls == 1
MaxAlerts == 2
MaxCategories == 3
NumRequests == 2
MaxProducts == 4
MaxRows == 2
NumHubs == 2
MaxSettingsRows == 3
MaxTaxCategories == 2
MaxCountCategories == 1
MaxCountProducts == 3

\* quantities an adjustment may carry: a decrease, zero, an increase
Quantities == {-1, 0, 1}

(***************************************************************************)
(* String helpers (Python str methods and Django lookups)                  *)
(***************************************************************************)
\* str.lower() on one character
LowerChar(c) ==
    CASE c = "A" -> "a"
      [] c = "B" -> "b"
      [] c = "C" -> "c"
      [] c = "T" -> "t"
      [] c = "Z" -> "z"
      [] OTHER -> c

\* str.upper() on one character
UpperChar(c) ==
    CASE c = "a" -> "A"
      [] c = "b" -> "B"
      [] c = "c" -> "C"
      [] c = "t" -> "T"
      [] c = "z" -> "Z"
      [] OTHER -> c

\* str.lower()
Lower(s) == [i \in 1..Len(s) |-> LowerChar(s[i])]

\* str.strip(): drop leading and trailing whitespace
RECURSIVE LStrip(_)
LStrip(s) == IF s # <<>> /\ Head(s) = " " THEN LStrip(Tail(s)) ELSE s

RECURSIVE RStrip(_)
RStrip(s) ==
    IF s # <<>> /\ s[Len(s)] = " " THEN RStrip(SubSeq(s, 1, Len(s) - 1)) ELSE s

Strip(s) == RStrip(LStrip(s))

\* str.capitalize(): first character upper-cased, the rest lower-cased
Capitalize(s) ==
    [i \in 1..Len(s) |-> IF i = 1 THEN UpperChar(s[i]) ELSE LowerChar(s[i])]

\* field__iexact=ref
IExact(field, ref) == Lower(field) = Lower(ref)

\* field__icontains=ref
IContains(field, ref) ==
    \E i \in 1..(Len(field) - Len(ref) + 1) :
        SubSeq(Lower(field), i, i + Len(ref) - 1) = Lower(ref)

(***************************************************************************)
(* Catalogue                                                               *)
(***************************************************************************)
SkuA == <<"A", "1">>
SkuB == <<"B", "2">>
EanA == <<"7", "7">>
EanB == <<"8", "8">>
NameA == <<"T", "e", "a">>
NameB == <<"T", "e", "a", "c", "u", "p">>

ProductIds == {1, 2}

\* a product id no row has (Product.DoesNotExist)
MissingId == Cardinality(ProductIds) + 1

\* tax_class = None
NoTaxClass == "None"

\* the rows of configuration.TaxClass
TaxClasses == {"general", "reduced"}

\* Product fields with the model's defaults for the rest; amounts are in cents
\* (DecimalField with decimal_places=2), the price is the one of the tests' fixture
NewProduct(sku, ean13, name, stock, threshold, ptype) ==
    [sku |-> sku, ean13 |-> ean13, name |-> name, stock |-> stock,
     low_stock_threshold |-> threshold, product_type |-> ptype,
     price |-> 250, cost |-> 0, tax_class |-> NoTaxClass,
     is_active |-> TRUE, is_deleted |-> FALSE]

\* InventorySettings defaults
DefaultSettings ==
    [allow_negative_stock |-> FALSE, low_stock_alert_enabled |-> TRUE,
     auto_generate_sku |-> TRUE, barcode_enabled |-> TRUE]

NoOp == [op |-> "none"]

\* the requests that may run at the same time
Requests == 1..NumRequests

IdleRequest == [pc |-> "idle"]

\* the populate_ean13 command before it is run
IdleCommand == [pc |-> "idle"]

\* random.randint(0, 9), twelve times
CodeLen == 12

\* StoreConfig.get_solo() of a store that sets no default tax class
DefaultStoreConfig == [default_tax_class |-> NoTaxClass]

\* the tables and the hub's settings right after installation
InitStore ==
    /\ products = (1 :> NewProduct(SkuA, EanA, NameA, 100, 2, "physical")
                   @@ 2 :> NewProduct(SkuB, EanB, NameB, 0, 0, "physical"))
    /\ movements = <<>>
    /\ settings = DefaultSettings
    /\ hookLog = <<>>
    /\ vetoing = FALSE
    /\ alerts = <<>>
    /\ categories = <<>>
    /\ req = [r \in Requests |-> IdleRequest]
    /\ last = NoOp
    /\ links = {}
    /\ settingsRows = <<>>
    /\ storeConfig = DefaultStoreConfig
    /\ stockAlerts = <<>>
    /\ cmd = IdleCommand

Init ==
    /\ InitStore
    /\ rng = [i \in 1..CodeLen |-> 0]

(***************************************************************************)
(* Stock adjustment (assistant tools)                                      *)
(***************************************************************************)
Abs(n) == IF n < 0 THEN -n ELSE n

\* the classification with the boundary moved: zero counted as an increase
MovementTypeZeroIn(qty) == IF qty >= 0 THEN "in" ELSE "adjustment"

\* movement_type = 'in' if qty > 0 else 'adjustment'
MovementType(qty) == IF qty > 0 THEN "in" ELSE "adjustment"

\* the movement written with the signed quantity, abs() left out
NewMovementSigned(id, qty, reference) ==
    [product |-> id, movement_type |-> MovementType(qty),
     quantity |-> qty, reference |-> reference]

\* StockMovement.objects.create(product=p, movement_type=..., quantity=abs(qty), reference=...)
NewMovement(id, qty, reference) ==
    [product |-> id, movement_type |-> MovementType(qty),
     quantity |-> Abs(qty), reference |-> reference]

\* p.stock += qty; p.save(update_fields=['stock'])
SaveStock(prods, id, stock) == [prods EXCEPT ![id].stock = stock]

\* what an operation starts from, kept for the statements about its effect
Before ==
    [products |-> products, movements |-> movements, hookLog |-> hookLog,
     vetoing |-> vetoing, alerts |-> alerts]

\* the writes of AdjustStock.execute on the tables st: the movement is created,
\* then the quantity is added to the stock and the stock is saved
AdjustStockOn(st, id, qty, reason) ==
    [products |-> SaveStock(st.products, id, st.products[id].stock + qty),
     movements |-> Append(st.movements, NewMovement(id, qty, reason))]

\* AdjustStock.execute, run alone: get, create the movement, add, save
AdjustStock(cap) ==
    \E id \in ProductIds \cup {MissingId}, qty \in Quantities, reason \in {"recount"} :
        \/ /\ id \notin DOMAIN products
           /\ last' = [op |-> "adjust_stock", product_id |-> id, quantity |-> qty,
                       reason |-> reason, before |-> Before, result |-> "DoesNotExist"]
           /\ UNCHANGED <<products, movements>>
        \/ /\ id \in DOMAIN products
           /\ Len(movements) < cap
           /\ movements' =
                  AdjustStockOn([products |-> products, movements |-> movements],
                                id, qty, reason).movements
           /\ products' =
                  AdjustStockOn([products |-> products, movements |-> movements],
                                id, qty, reason).products
           /\ last' = [op |-> "adjust_stock", product_id |-> id, quantity |-> qty,
                       reason |-> reason, before |-> Before,
                       result |-> [product |-> products[id].name,
                                   new_stock |-> products[id].stock + qty,
                                   adjusted_by |-> qty]]

\* the product references a delivery note may carry
RefBlank == <<" ">>
RefSkuA == <<"a", "1">>
RefCup == <<"c", "u", "p">>
RefNone == <<"z", "z">>
Refs == {RefBlank, RefSkuA, RefCup, RefNone}

\* the items of a bulk adjustment, {"reference": ..., "quantity": ...}: a blank
\* reference, a zero quantity, an unknown reference, and two that resolve
Items ==
    {[reference |-> RefBlank, quantity |-> 1],
     [reference |-> RefSkuA, quantity |-> 0],
     [reference |-> RefNone, quantity |-> 1],
     [reference |-> RefSkuA, quantity |-> 1],
     [reference |-> RefCup, quantity |-> -1]}

Max(S) == CHOOSE x \in S : \A y \in S : y <= x

\* QuerySet.first() under Meta.ordering = ['-created_at']: the row created last; 0 is None
First(ids) == IF ids = {} THEN 0 ELSE Max(ids)

\* the lookups in another order: the name is tried before the SKU and the barcode
ResolveProductNameFirst(prods, ref) ==
    LET bySku == {i \in DOMAIN prods : IExact(prods[i].sku, ref)}
        byEan == {i \in DOMAIN prods : prods[i].ean13 = ref}
        byName == {i \in DOMAIN prods : IExact(prods[i].name, ref)}
        byPart == {i \in DOMAIN prods : IContains(prods[i].name, ref)}
    IN  IF First(byName) # 0 THEN First(byName)
        ELSE IF First(bySku) # 0 THEN First(bySku)
        ELSE IF First(byEan) # 0 THEN First(byEan)
        ELSE First(byPart)

\* sku__iexact, then ean13, then name__iexact, then name__icontains; the first hit wins
ResolveProduct(prods, ref) ==
    LET bySku == {i \in DOMAIN prods : IExact(prods[i].sku, ref)}
        byEan == {i \in DOMAIN prods : prods[i].ean13 = ref}
        byName == {i \in DOMAIN prods : IExact(prods[i].name, ref)}
        byPart == {i \in DOMAIN prods : IContains(prods[i].name, ref)}
    IN  IF First(bySku) # 0 THEN First(bySku)
        ELSE IF First(byEan) # 0 THEN First(byEan)
        ELSE IF First(byName) # 0 THEN First(byName)
        ELSE First(byPart)

\* the loop body that adjusts a product once per call: a later item for a
\* product already adjusted is turned away
BulkItemDistinct(st, item, reason) ==
    LET ref == Strip(item.reference)
        qty == item.quantity
        id == ResolveProduct(st.products, ref)
    IN  IF ref = <<>> \/ qty = 0
        THEN [st EXCEPT !.not_found =
                 Append(@, [reference |-> ref, reason |-> "Empty reference or zero quantity"])]
        ELSE IF id = 0 \/ \E k \in 1..Len(st.adjusted) : st.adjusted[k].sku = st.products[id].sku
        THEN [st EXCEPT !.not_found =
                 Append(@, [reference |-> ref, reason |-> "Product not found"])]
        ELSE [products |-> SaveStock(st.products, id, st.products[id].stock + qty),
              movements |-> Append(st.movements, NewMovement(id, qty, reason)),
              adjusted |-> Append(st.adjusted,
                  [reference |-> ref, product_name |-> st.products[id].name,
                   sku |-> st.products[id].sku, quantity |-> qty,
                   new_stock |-> st.products[id].stock + qty]),
              not_found |-> st.not_found]

\* one pass of the loop of BulkAdjustStock.execute over item
BulkItem(st, item, reason) ==
    LET ref == Strip(item.reference)
        qty == item.quantity
        id == ResolveProduct(st.products, ref)
    IN  IF ref = <<>> \/ qty = 0
        THEN [st EXCEPT !.not_found =
                 Append(@, [reference |-> ref, reason |-> "Empty reference or zero quantity"])]
        ELSE IF id = 0
        THEN [st EXCEPT !.not_found =
                 Append(@, [reference |-> ref, reason |-> "Product not found"])]
        ELSE [products |-> SaveStock(st.products, id, st.products[id].stock + qty),
              movements |-> Append(st.movements, NewMovement(id, qty, reason)),
              adjusted |-> Append(st.adjusted,
                  [reference |-> ref, product_name |-> st.products[id].name,
                   sku |-> st.products[id].sku, quantity |-> qty,
                   new_stock |-> st.products[id].stock + qty]),
              not_found |-> st.not_found]

\* the loop with break in place of continue: it ends at the first rejected item
RECURSIVE BulkLoopBreaks(_, _, _, _)
BulkLoopBreaks(st, items, k, reason) ==
    IF k > Len(items) THEN st
    ELSE LET nxt == BulkItem(st, items[k], reason)
         IN  IF Len(nxt.not_found) > Len(st.not_found) THEN nxt
             ELSE BulkLoopBreaks(nxt, items, k + 1, reason)

\* the loop of BulkAdjustStock.execute over items[k..]
RECURSIVE BulkLoop(_, _, _, _)
BulkLoop(st, items, k, reason) ==
    IF k > Len(items) THEN st
    ELSE BulkLoop(BulkItem(st, items[k], reason), items, k + 1, reason)

\* BulkAdjustStock.execute over the item lists that can be made of itemSet
BulkAdjustStockOf(cap, itemSet) ==
    \E n \in 0..MaxItems :
      /\ Len(movements) + n <= cap
      /\ \E items \in [1..n -> itemSet], reason \in {"delivery"} :
           \E end \in {BulkLoop([products |-> products, movements |-> movements,
                                  adjusted |-> <<>>, not_found |-> <<>>],
                                 items, 1, reason)} :
               /\ products' = end.products
               /\ movements' = end.movements
               /\ last' = [op |-> "bulk_adjust_stock", items |-> items,
                           reason |-> reason, before |-> Before,
                           result |-> [adjusted |-> end.adjusted,
                                       not_found |-> end.not_found]]

\* BulkAdjustStock.execute
BulkAdjustStock(cap) == BulkAdjustStockOf(cap, Items)

\* stock values and thresholds an update may carry
StockValues == {-1, 2}
ThresholdValues == {0, 2}

\* the fields an update may carry besides product_id
UpdateArgs ==
    [stock : StockValues] \cup [low_stock_threshold : ThresholdValues]
        \cup [stock : StockValues, low_stock_threshold : ThresholdValues]

\* UpdateProduct.execute: the fields present in args are assigned, then p.save()
UpdateProduct ==
    \E id \in ProductIds \cup {MissingId}, args \in UpdateArgs :
        \/ /\ id \notin DOMAIN products
           /\ last' = [op |-> "update_product", product_id |-> id, args |-> args,
                       before |-> Before, result |-> "DoesNotExist"]
           /\ UNCHANGED products
        \/ /\ id \in DOMAIN products
           /\ products' = [products EXCEPT
                  ![id].stock = IF "stock" \in DOMAIN args THEN args.stock ELSE @,
                  ![id].low_stock_threshold =
                      IF "low_stock_threshold" \in DOMAIN args
                      THEN args.low_stock_threshold ELSE @]
           /\ last' = [op |-> "update_product", product_id |-> id, args |-> args,
                       before |-> Before, result |-> "updated"]

\* settings_view POST with a body that carries allow_negative_stock only: the
\* other two flags take the defaults of data.get
SaveSettings ==
    \E allow \in BOOLEAN :
        /\ settings' = [settings EXCEPT !.allow_negative_stock = allow,
                                         !.low_stock_alert_enabled = TRUE,
                                         !.barcode_enabled = TRUE]
        /\ last' = [op |-> "save_settings", before |-> Before, result |-> "saved"]

(***************************************************************************)
(* Stock-change hooks (apps.py helpers, called by other code)              *)
(***************************************************************************)
\* hooks.do_action(name, product=..., old_quantity=..., new_quantity=..., reason=..., user=...)
HookCall(name, id, old, new, reason) ==
    [hook |-> name, product |-> id, old_quantity |-> old, new_quantity |-> new,
     reason |-> reason]

\* another module subscribes a validator to inventory.before_stock_change, or
\* the subscribers are cleared
SetSubscribers ==
    \E v \in BOOLEAN :
        /\ vetoing' = v
        /\ last' = [op |-> "set_subscribers", vetoing |-> v]

\* InventoryConfig.do_before_stock_change: the subscribers run; one may raise
DoBeforeStockChange ==
    \E id \in DOMAIN products, qty \in Quantities :
        /\ Len(hookLog) < MaxHookCalls
        /\ hookLog' = Append(hookLog,
               HookCall("inventory.before_stock_change", id, products[id].stock,
                        products[id].stock + qty, "sale"))
        /\ last' = [op |-> "do_before_stock_change", product_id |-> id, quantity |-> qty,
                    result |-> IF vetoing THEN "ValidationError" ELSE "ok"]

\* InventoryConfig.do_after_stock_change
DoAfterStockChange ==
    \E id \in DOMAIN products, qty \in Quantities :
        /\ Len(hookLog) < MaxHookCalls
        /\ hookLog' = Append(hookLog,
               HookCall("inventory.after_stock_change", id, products[id].stock - qty,
                        products[id].stock, "sale"))
        /\ last' = [op |-> "do_after_stock_change", product_id |-> id, quantity |-> qty,
                    result |-> "ok"]

(***************************************************************************)
(* Low-stock evaluation (stock_changed receiver)                           *)
(***************************************************************************)
\* getattr(product, 'min_stock', 0) or 0
MinStock(product) ==
    IF "min_stock" \in DOMAIN product
    THEN (IF product.min_stock = 0 THEN 0 ELSE product.min_stock)
    ELSE 0

\* the comparison made strict
IsLowStrict(new_quantity, min_stock) == new_quantity < min_stock

\* if new_quantity <= min_stock
IsLow(new_quantity, min_stock) == new_quantity <= min_stock

\* the new_quantity a stock_changed signal may carry
SignalQuantities == {-1, 0, 1, 2, 3}

\* the receiver made stateful: it stays silent for a product it has alerted for
CheckLowStockOnce ==
    \E sender \in {"sales", "inventory"}, id \in ProductIds \cup {MissingId},
       new_quantity \in SignalQuantities :
        /\ last' = [op |-> "stock_changed", sender |-> sender, product_id |-> id,
                    new_quantity |-> new_quantity, before |-> Before,
                    result |-> "None"]
        /\ \/ /\ id \notin DOMAIN products
              /\ UNCHANGED alerts
           \/ /\ id \in DOMAIN products
              /\ \/ ~IsLow(new_quantity, MinStock(products[id]))
                 \/ \E i \in 1..Len(alerts) : alerts[i].product = id
              /\ UNCHANGED alerts
           \/ /\ id \in DOMAIN products
              /\ IsLow(new_quantity, MinStock(products[id]))
              /\ \A i \in 1..Len(alerts) : alerts[i].product # id
              /\ Len(alerts) < MaxAlerts
              /\ alerts' = Append(alerts,
                     [sender |-> "inventory", product |-> id,
                      current_stock |-> new_quantity,
                      minimum_stock |-> MinStock(products[id])])

\* check_low_stock(sender, product_id, product_name, new_quantity, **kwargs)
CheckLowStock ==
    \E sender \in {"sales", "inventory"}, id \in ProductIds \cup {MissingId},
       new_quantity \in SignalQuantities :
        /\ last' = [op |-> "stock_changed", sender |-> sender, product_id |-> id,
                    new_quantity |-> new_quantity, before |-> Before,
                    result |-> "None"]
        /\ \/ /\ id \notin DOMAIN products
              /\ UNCHANGED alerts
           \/ /\ id \in DOMAIN products
              /\ ~IsLow(new_quantity, MinStock(products[id]))
              /\ UNCHANGED alerts
           \/ /\ id \in DOMAIN products
              /\ IsLow(new_quantity, MinStock(products[id]))
              /\ Len(alerts) < MaxAlerts
              /\ alerts' = Append(alerts,
                     [sender |-> "inventory", product |-> id,
                      current_stock |-> new_quantity,
                      minimum_stock |-> MinStock(products[id])])

(***************************************************************************)
(* Categories                                                              *)
(***************************************************************************)
\* unicodedata.normalize('NFKD', value).encode('ascii', 'ignore'): an accented
\* letter keeps its base letter, any other non-ASCII character is dropped
AsciiChar(c) ==
    CASE c = "é" -> <<"e">>
      [] c = "€" -> <<>>
      [] OTHER -> <<c>>

RECURSIVE Ascii(_)
Ascii(s) == IF s = <<>> THEN <<>> ELSE AsciiChar(Head(s)) \o Ascii(Tail(s))

\* [^\w\s-] : what re.sub removes
IsSlugChar(c) == c \notin {"!", "?"}

RECURSIVE KeepSlugChars(_)
KeepSlugChars(s) ==
    IF s = <<>> THEN <<>>
    ELSE (IF IsSlugChar(Head(s)) THEN <<Head(s)>> ELSE <<>>) \o KeepSlugChars(Tail(s))

IsSep(c) == c \in {" ", "-"}

\* re.sub(r'[-\s]+', '-', value)
RECURSIVE Hyphenate(_)
Hyphenate(s) ==
    IF s = <<>> THEN <<>>
    ELSE IF IsSep(Head(s))
         THEN (IF Len(s) > 1 /\ IsSep(s[2]) THEN Hyphenate(Tail(s))
               ELSE <<"-">> \o Hyphenate(Tail(s)))
         ELSE <<Head(s)>> \o Hyphenate(Tail(s))

\* str.strip('-_')
RECURSIVE StripDashes(_)
StripDashes(s) ==
    IF s # <<>> /\ Head(s) \in {"-", "_"} THEN StripDashes(Tail(s))
    ELSE IF s # <<>> /\ s[Len(s)] \in {"-", "_"} THEN StripDashes(SubSeq(s, 1, Len(s) - 1))
    ELSE s

\* django.utils.text.slugify
Slugify(s) == StripDashes(Hyphenate(KeepSlugChars(Lower(Ascii(s)))))

\* Category fields with the model's defaults for the rest
NewCategory(name, slug) ==
    [name |-> name, slug |-> slug, tax_class |-> NoTaxClass, is_active |-> TRUE,
     sort_order |-> 0, is_deleted |-> FALSE]

\* Category.save: the name is stripped and capitalized, an empty slug is derived from it
CategorySave(cat) ==
    LET name == IF cat.name # <<>> THEN Capitalize(Strip(cat.name)) ELSE cat.name
    IN  [cat EXCEPT !.name = name,
                    !.slug = IF cat.slug = <<>> THEN Slugify(name) ELSE cat.slug]

\* the names a category may be created with
CategoryNames ==
    {<<"C", "a", "f", "é">>, <<"c", "a", "f", "e">>, <<"t", "e", "a", " ">>,
     <<"i", "c", "e", " ", "-", "t", "e", "a", "!">>}

\* CreateCategory.execute: Category.objects.create(name=..., slug=slugify(name), ...)
CreateCategory ==
    \E name \in CategoryNames :
        /\ Len(categories) < MaxCategories
        /\ categories' = Append(categories, CategorySave(NewCategory(name, Slugify(name))))
        /\ last' = [op |-> "create_category", name |-> name]

\* Category.objects.create(name=...) with no slug given (imports, forms)
CategoryCreate ==
    \E name \in CategoryNames :
        /\ Len(categories) < MaxCategories
        /\ categories' = Append(categories, CategorySave(NewCategory(name, <<>>)))
        /\ last' = [op |-> "category_create", name |-> name]

(***************************************************************************)
(* adjust_stock, statement by statement, for requests that run together    *)
(***************************************************************************)
ConcQuantities == {5, -3}

\* a request arrives: args = {"product_id": ..., "quantity": ...}
Call(r) ==
    /\ req[r].pc = "idle"
    /\ \E id \in {1, MissingId}, qty \in ConcQuantities :
           req' = [req EXCEPT ![r] = [pc |-> "get", product_id |-> id, quantity |-> qty]]
    /\ UNCHANGED <<products, movements>>

\* p = Product.objects.get(id=args['product_id'])
GetProduct(r) ==
    /\ req[r].pc = "get"
    /\ \/ /\ req[r].product_id \notin DOMAIN products
          /\ req' = [req EXCEPT ![r].pc = "raised"]
       \/ /\ req[r].product_id \in DOMAIN products
          /\ req' = [req EXCEPT ![r] =
                 [pc |-> "create", product_id |-> req[r].product_id,
                  quantity |-> req[r].quantity,
                  p_stock |-> products[req[r].product_id].stock]]
    /\ UNCHANGED <<products, movements>>

\* StockMovement.objects.create(...): committed at once, no transaction is open
CreateMovement(r) ==
    /\ req[r].pc = "create"
    /\ movements' = Append(movements, NewMovement(req[r].product_id, req[r].quantity, "recount"))
    /\ req' = [req EXCEPT ![r].pc = "save"]
    /\ UNCHANGED products

\* p.stock += qty; p.save(update_fields=['stock']): the value read by get, plus qty
Save(r) ==
    /\ req[r].pc = "save"
    /\ products' = SaveStock(products, req[r].product_id, req[r].p_stock + req[r].quantity)
    /\ req' = [req EXCEPT ![r].pc = "done"]
    /\ UNCHANGED movements

\* p.save raises (a database error): execute ends there, nothing is undone
SaveFails(r) ==
    /\ req[r].pc = "save"
    /\ req' = [req EXCEPT ![r].pc = "failed"]
    /\ UNCHANGED <<products, movements>>

(***************************************************************************)
(* Products: the create tool, the product form views                       *)
(***************************************************************************)
SkuC == <<"C", "3">>

\* request.POST.get(key, default), args.get(key, default)
Get(data, key, default) == IF key \in DOMAIN data THEN data[key] ELSE default

\* Product.save: the name is stripped and capitalized; sku is stored as given
ProductSave(product) ==
    [product EXCEPT !.name = IF @ # <<>> THEN Capitalize(Strip(@)) ELSE @]

\* the id the database gives the next inventory_product row
NextProductId == Cardinality(DOMAIN products) + 1

\* Category.objects.filter(id__in=args['category_ids'])
CategoriesWithIds(ids) ==
    {c \in 1..Len(categories) : c \in ids /\ ~categories[c].is_deleted}

\* CreateProduct.execute: sku defaults to '', cost to None (a NULL the cost
\* column does not take: IntegrityError), stock and threshold to 0
CreateProduct(argsSet) ==
    \E args \in argsSet :
        \/ /\ "cost" \notin DOMAIN args
           /\ last' = [op |-> "create_product", args |-> args,
                       result |-> "IntegrityError"]
           /\ UNCHANGED <<products, links>>
        \/ /\ "cost" \in DOMAIN args
           /\ Cardinality(DOMAIN products) < MaxProducts
           /\ products' = products @@
                  (NextProductId :> ProductSave(
                      [NewProduct(Get(args, "sku", <<>>), <<>>, args.name,
                                  Get(args, "stock", 0),
                                  Get(args, "low_stock_threshold", 0), "physical")
                          EXCEPT !.price = args.price, !.cost = args.cost]))
           /\ links' = links \cup
                  {<<NextProductId, c>> : c \in CategoriesWithIds(Get(args, "category_ids", {}))}
           /\ last' = [op |-> "create_product", args |-> args,
                       result |-> [id |-> NextProductId, created |-> TRUE]]

\* Category.objects.filter(name__in=[name.strip().capitalize() ...])
CategoriesNamed(names) ==
    {c \in 1..Len(categories) :
        /\ ~categories[c].is_deleted
        /\ \E n \in names : Strip(n) # <<>> /\ categories[c].name = Capitalize(Strip(n))}

\* the product a product form POST describes
PostedProduct(post, ean13) ==
    [NewProduct(post.sku, ean13, post.name, Get(post, "stock", 0),
                Get(post, "low_stock_threshold", 10),
                Get(post, "product_type", "physical"))
        EXCEPT !.price = post.price, !.cost = Get(post, "cost", 0),
               !.tax_class = Get(post, "tax_class_id", NoTaxClass)]

\* a category_names list with a name that is not blank
NamesGiven(post) == \E n \in Get(post, "category_names", {}) : Strip(n) # <<>>

\* product_create POST: a blank price is a ValueError, anything else is stored
ProductCreate(posts) ==
    \E post \in posts :
        \/ /\ "price" \notin DOMAIN post
           /\ last' = [op |-> "product_create", post |-> post,
                       result |-> "ValueError"]
           /\ UNCHANGED <<products, links>>
        \/ /\ "price" \in DOMAIN post
           /\ Cardinality(DOMAIN products) < MaxProducts
           /\ products' = products @@ (NextProductId :> ProductSave(PostedProduct(post, <<>>)))
           /\ links' = (IF NamesGiven(post)
                        THEN links \cup {<<NextProductId, c>> :
                                            c \in CategoriesNamed(post.category_names)}
                        ELSE links)
           /\ last' = [op |-> "product_create", post |-> post,
                       result |-> "redirect"]

\* get_object_or_404(Product, pk=pk) finds a row: the default manager leaves
\* the soft-deleted rows out
Found(rows, pk) == pk \in DOMAIN rows /\ ~rows[pk].is_deleted

\* product_edit POST on product pk: every posted field replaces the stored one,
\* the categories are set to the named ones, or cleared when none is named
ProductEdit(posts) ==
    \E pk \in DOMAIN products \cup {MissingId + MaxProducts}, post \in posts :
        \/ /\ ~Found(products, pk)
           /\ last' = [op |-> "product_edit", pk |-> pk, post |-> post,
                       result |-> "Http404"]
           /\ UNCHANGED <<products, links>>
        \/ /\ Found(products, pk)
           /\ "price" \notin DOMAIN post
           /\ last' = [op |-> "product_edit", pk |-> pk, post |-> post,
                       result |-> "ValueError"]
           /\ UNCHANGED <<products, links>>
        \/ /\ Found(products, pk)
           /\ "price" \in DOMAIN post
           /\ products' = [products EXCEPT ![pk] =
                  ProductSave([PostedProduct(post, @.ean13)
                                  EXCEPT !.is_active = products[pk].is_active])]
           /\ links' = {l \in links : l[1] # pk} \cup
                  (IF NamesGiven(post)
                   THEN {<<pk, c>> : c \in CategoriesNamed(post.category_names)}
                   ELSE {})
           /\ last' = [op |-> "product_edit", pk |-> pk, post |-> post,
                       result |-> "redirect"]

(***************************************************************************)
(* Product import from CSV and from Excel                                  *)
(***************************************************************************)
\* str.split(','), the text up to the first comma
RECURSIVE UpToComma(_)
UpToComma(s) ==
    IF s = <<>> \/ Head(s) = "," THEN <<>> ELSE <<Head(s)>> \o UpToComma(Tail(s))

RECURSIVE Split(_)
Split(s) ==
    LET part == UpToComma(s)
    IN  IF Len(part) = Len(s) THEN <<part>>
        ELSE <<part>> \o Split(SubSeq(s, Len(part) + 2, Len(s)))

\* [cat_name.strip() for cat_name in categories_str.split(',')], then `if cat_name`
ColumnNames(column) ==
    IF Strip(column) = <<>> THEN <<>>
    ELSE SelectSeq([i \in 1..Len(Split(Strip(column))) |-> Strip(Split(Strip(column))[i])],
                   LAMBDA n : n # <<>>)

\* Category.objects.get_or_create(name=cat_name, defaults=...): the rows whose
\* stored name is exactly cat_name
CategoriesExactly(cats, cat_name) ==
    {c \in 1..Len(cats) : ~cats[c].is_deleted /\ cats[c].name = cat_name}

\* Category.objects.filter(name__iexact=normalized_name)
CategoriesIExact(cats, name) ==
    {c \in 1..Len(cats) : ~cats[c].is_deleted /\ IExact(cats[c].name, name)}

Min(S) == CHOOSE x \in S : \A y \in S : x <= y

\* the categories loop of import_csv over names[k..]: get_or_create by exact
\* name; st.error is set when get finds more than one row
RECURSIVE CsvCategories(_, _, _)
CsvCategories(st, names, k) ==
    IF k > Len(names) \/ st.error # "" THEN st
    ELSE LET hits == CategoriesExactly(st.categories, names[k])
         IN  IF Cardinality(hits) > 1
             THEN [st EXCEPT !.error = "MultipleObjectsReturned"]
             ELSE IF Cardinality(hits) = 1
             THEN CsvCategories([st EXCEPT !.list = Append(@, Min(hits))], names, k + 1)
             ELSE CsvCategories(
                      [st EXCEPT !.categories =
                                     Append(@, CategorySave(NewCategory(names[k], <<>>))),
                                 !.list = Append(@, Len(st.categories) + 1)],
                      names, k + 1)

\* the categories loop of import_excel over names[k..]: capitalize, look up
\* case-insensitively, create when there is none
RECURSIVE ExcelCategories(_, _, _)
ExcelCategories(st, names, k) ==
    IF k > Len(names) THEN st
    ELSE LET normalized_name == Capitalize(names[k])
             hits == CategoriesIExact(st.categories, normalized_name)
         IN  IF hits # {}
             THEN ExcelCategories([st EXCEPT !.list = Append(@, Min(hits))], names, k + 1)
             ELSE ExcelCategories(
                      [st EXCEPT !.categories =
                                     Append(@, CategorySave(NewCategory(normalized_name, <<>>))),
                                 !.list = Append(@, Len(st.categories) + 1)],
                      names, k + 1)

\* Product.objects.filter(sku=sku) of the default manager
ProductsWithSku(prods, sku) == {i \in DOMAIN prods : ~prods[i].is_deleted /\ prods[i].sku = sku}

\* the set of the elements of a sequence
Range(seq) == {seq[i] : i \in 1..Len(seq)}

\* the product an import row describes
ImportedProduct(old, sku, name, row, threshold, ean13) ==
    [old EXCEPT !.sku = sku, !.name = name, !.price = Get(row, "price", 0),
                !.cost = Get(row, "cost", 0), !.stock = Get(row, "stock", 0),
                !.low_stock_threshold = threshold, !.ean13 = ean13]

\* product.categories.set(categories_list)
SetCategories(lnks, id, list) == {l \in lnks : l[1] # id} \cup {<<id, c>> : c \in Range(list)}

RowError(st, line, error) == [st EXCEPT !.errors = Append(@, [line |-> line, error |-> error])]

\* one pass of the loop of import_csv over row, the line-th of the file
CsvRow(st, row, line) ==
    LET sku == Strip(row.sku)
        name == Strip(row.name)
        cs == CsvCategories([categories |-> st.categories, list |-> <<>>, error |-> ""],
                            ColumnNames(row.categories), 1)
        withCats == [st EXCEPT !.categories = cs.categories]
        hits == ProductsWithSku(st.products, sku)
        id == IF hits = {} THEN Cardinality(DOMAIN st.products) + 1 ELSE Min(hits)
        old == IF hits = {} THEN NewProduct(sku, <<>>, name, 0, 10, "physical")
               ELSE st.products[id]
        saved == ProductSave(ImportedProduct(old, sku, name, row,
                                             Get(row, "low_stock_threshold", 10), row.ean13))
    IN  IF sku = <<>> THEN st
        ELSE IF name = <<>> THEN RowError(st, line, "El nombre es obligatorio")
        ELSE IF Get(row, "price", 0) < 0
        THEN RowError(st, line, "El precio no puede ser negativo")
        ELSE IF Get(row, "cost", 0) < 0
        THEN RowError(st, line, "El costo no puede ser negativo")
        ELSE IF Get(row, "stock", 0) < 0
        THEN RowError(st, line, "El stock no puede ser negativo")
        ELSE IF cs.error # "" THEN RowError(withCats, line, cs.error)
        ELSE IF Cardinality(hits) > 1 THEN RowError(withCats, line, "MultipleObjectsReturned")
        \* 'ean13': row.get('ean13', '') or None, and the column takes no NULL
        ELSE IF row.ean13 = <<>> THEN RowError(withCats, line, "IntegrityError")
        ELSE [withCats EXCEPT
                 !.products = (IF hits = {} THEN @ @@ (id :> saved)
                               ELSE [@ EXCEPT ![id] = saved]),
                 !.links = (IF cs.list # <<>> THEN SetCategories(@, id, cs.list) ELSE @),
                 !.created = (IF hits = {} THEN @ + 1 ELSE @),
                 !.updated = (IF hits = {} THEN @ ELSE @ + 1)]

\* one pass of the loop of import_excel (the definition the module ends up
\* with) over row: get_or_create by SKU, update when it exists, then the categories
ExcelRow(st, row, line) ==
    LET sku == Strip(row.sku)
        name == Strip(row.name)
        hits == ProductsWithSku(st.products, sku)
        id == IF hits = {} THEN Cardinality(DOMAIN st.products) + 1 ELSE Min(hits)
        old == IF hits = {} THEN NewProduct(sku, <<>>, name, 0, 10, "physical")
               ELSE st.products[id]
        ean13 == IF Strip(row.ean13) # <<>> THEN Strip(row.ean13)
                 ELSE (IF hits = {} THEN <<>> ELSE old.ean13)
        saved == ProductSave(ImportedProduct(old, sku, name, row,
                                             Get(row, "low_stock_threshold", 10), ean13))
        names == ColumnNames(row.categories)
        cs == ExcelCategories([categories |-> st.categories, list |-> <<>>], names, 1)
    IN  IF name = <<>> \/ sku = <<>> THEN RowError(st, line, "Name and SKU are required")
        ELSE IF Cardinality(hits) > 1 THEN RowError(st, line, "MultipleObjectsReturned")
        ELSE [st EXCEPT
                 !.products = (IF hits = {} THEN @ @@ (id :> saved)
                               ELSE [@ EXCEPT ![id] = saved]),
                 !.categories = cs.categories,
                 !.links = (IF Strip(row.categories) # <<>>
                            THEN SetCategories(@, id, cs.list) ELSE @),
                 !.created = (IF hits = {} THEN @ + 1 ELSE @),
                 !.updated = (IF hits = {} THEN @ ELSE @ + 1)]

\* the loop of an import over rows[k..], data rows starting at line 2
RECURSIVE ImportLoop(_, _, _, _)
ImportLoop(st, rows, k, excel) ==
    IF k > Len(rows) THEN st
    ELSE ImportLoop(IF excel THEN ExcelRow(st, rows[k], k + 1) ELSE CsvRow(st, rows[k], k + 1),
                    rows, k + 1, excel)

\* import_csv or import_excel over a file of at most MaxRows data rows
Import(op, rowSet, excel) ==
    \E n \in 1..MaxRows :
        \E rows \in [1..n -> rowSet] :
            \E end \in {ImportLoop([products |-> products, categories |-> categories,
                                    links |-> links, created |-> 0, updated |-> 0,
                                    errors |-> <<>>], rows, 1, excel)} :
                /\ Cardinality(DOMAIN end.products) <= MaxProducts
                /\ Len(end.categories) <= MaxCategories
                /\ products' = end.products
                /\ categories' = end.categories
                /\ links' = end.links
                /\ last' = [op |-> op, rows |-> rows,
                            categories_before |-> categories,
                            result |-> [created |-> end.created, updated |-> end.updated,
                                        errors |-> end.errors]]

ImportCsv(rowSet) == Import("import_csv", rowSet, FALSE)

ImportExcel(rowSet) == Import("import_excel", rowSet, TRUE)

(***************************************************************************)
(* EAN-13 generation (populate_ean13 command)                              *)
(***************************************************************************)
\* the digits random.randint(0, 9) may return
RandomDigits == {0, 1, 9}

\* sum(int(code[i]) for i in range(start, 12, 2)), start counted from 0
RECURSIVE SumFrom(_, _)
SumFrom(code, start) ==
    IF start >= CodeLen THEN 0 ELSE code[start + 1] + SumFrom(code, start + 2)

\* str(n), as the sequence of its decimal digits
RECURSIVE Str(_)
Str(n) == IF n < 10 THEN <<n>> ELSE Str(n \div 10) \o <<n % 10>>

\* the check digit without the final % 10
CheckDigitNoWrap(code) == 10 - ((SumFrom(code, 0) + SumFrom(code, 1) * 3) % 10)

\* odd_sum, even_sum, total = odd_sum + (even_sum * 3), (10 - (total % 10)) % 10
CheckDigit(code) == (10 - ((SumFrom(code, 0) + SumFrom(code, 1) * 3) % 10)) % 10

\* Command.generate_ean13: code + str(check_digit), a code being its digits in order
GenerateEan13 ==
    last' = [op |-> "generate_ean13", code |-> rng, result |-> rng \o Str(CheckDigit(rng))]

(***************************************************************************)
(* Per-hub settings                                                        *)
(***************************************************************************)
HubIds == 1..NumHubs

\* the lookup that finds nothing: every call creates
SettingsOfHubNone(rows, hub_id) == {}

\* the get of get_or_create(hub_id=hub_id) on all_objects: the rows of that hub
SettingsOfHub(rows, hub_id) == {i \in 1..Len(rows) : rows[i].hub_id = hub_id}

\* InventorySettings(hub_id=hub_id) with the field defaults
NewSettings(pk, hub_id) ==
    [pk |-> pk, hub_id |-> hub_id, allow_negative_stock |-> FALSE,
     low_stock_alert_enabled |-> TRUE, auto_generate_sku |-> TRUE, barcode_enabled |-> TRUE]

\* InventorySettings.get_settings(hub_id)
GetSettings ==
    \E hub_id \in HubIds :
        \E hits \in {SettingsOfHub(settingsRows, hub_id)} :
            \/ /\ hits # {}
               /\ last' = [op |-> "get_settings", hub_id |-> hub_id,
                           rows_before |-> settingsRows, created |-> FALSE,
                           result |-> settingsRows[Min(hits)]]
               /\ UNCHANGED settingsRows
            \/ /\ hits = {}
               /\ Len(settingsRows) < MaxSettingsRows
               /\ settingsRows' = Append(settingsRows, NewSettings(Len(settingsRows) + 1, hub_id))
               /\ last' = [op |-> "get_settings", hub_id |-> hub_id,
                           rows_before |-> settingsRows, created |-> TRUE,
                           result |-> NewSettings(Len(settingsRows) + 1, hub_id)]

\* InventorySettingsForm(instance=row).save(): the four flags as posted (the
\* posts modelled carry two pairs of opposite flags)
SettingsFormSave ==
    \E i \in 1..Len(settingsRows), allow \in BOOLEAN, sku \in BOOLEAN :
        /\ settingsRows' = [settingsRows EXCEPT ![i].allow_negative_stock = allow,
                                                ![i].low_stock_alert_enabled = ~allow,
                                                ![i].auto_generate_sku = sku,
                                                ![i].barcode_enabled = ~sku]
        /\ last' = [op |-> "settings_form_save", pk |-> settingsRows[i].pk]

(***************************************************************************)
(* Tax class inheritance: product, then category, then store               *)
(***************************************************************************)
\* the code points of the characters the names are written with
CodePoint(c) ==
    CASE c = " " -> 32  [] c = "!" -> 33  [] c = "-" -> 45
      [] c = "A" -> 65  [] c = "B" -> 66  [] c = "C" -> 67  [] c = "T" -> 84
      [] c = "Z" -> 90  [] c = "a" -> 97  [] c = "b" -> 98  [] c = "c" -> 99
      [] c = "e" -> 101 [] c = "f" -> 102 [] c = "i" -> 105 [] c = "p" -> 112
      [] c = "t" -> 116 [] c = "u" -> 117 [] c = "z" -> 122 [] c = "é" -> 233

\* ORDER BY name under a binary collation
RECURSIVE NameLess(_, _)
NameLess(a, b) ==
    IF a = <<>> THEN b # <<>>
    ELSE IF b = <<>> THEN FALSE
    ELSE IF Head(a) # Head(b) THEN CodePoint(Head(a)) < CodePoint(Head(b))
    ELSE NameLess(Tail(a), Tail(b))

\* Category.Meta.ordering = ['sort_order', 'name']: category a comes before b
CategoryBefore(a, b) ==
    \/ a.sort_order < b.sort_order
    \/ a.sort_order = b.sort_order /\ NameLess(a.name, b.name)

\* self.categories.all(): the categories linked to the product that the default
\* manager shows
CategoriesOf(id) ==
    {c \in 1..Len(categories) : <<id, c>> \in links /\ ~categories[c].is_deleted}

\* the categories the loop can stop at: one that has a tax class, with none that
\* has one before it in the ordering (rows the ordering ties come in any order)
FirstWithTaxClass(id) ==
    {c \in CategoriesOf(id) :
        /\ categories[c].tax_class # NoTaxClass
        /\ \A d \in CategoriesOf(id) :
               categories[d].tax_class # NoTaxClass
                   => ~CategoryBefore(categories[d], categories[c])}

\* the inheritance with the first two levels swapped: a category's tax class wins
\* over the product's own
EffectiveTaxClassesCategoryFirst(id) ==
    IF FirstWithTaxClass(id) # {}
    THEN {categories[c].tax_class : c \in FirstWithTaxClass(id)}
    ELSE IF products[id].tax_class # NoTaxClass THEN {products[id].tax_class}
    ELSE {storeConfig.default_tax_class}

\* Product.get_effective_tax_class: what it can return for product id
EffectiveTaxClasses(id) ==
    IF products[id].tax_class # NoTaxClass THEN {products[id].tax_class}
    ELSE IF FirstWithTaxClass(id) # {}
    THEN {categories[c].tax_class : c \in FirstWithTaxClass(id)}
    ELSE {storeConfig.default_tax_class}

\* a caller reads product.get_effective_tax_class()
GetEffectiveTaxClass ==
    \E id \in DOMAIN products :
        \E tax_class \in EffectiveTaxClasses(id) :
            last' = [op |-> "get_effective_tax_class", product_id |-> id,
                     result |-> tax_class]

\* category_edit POST on category pk, the name left as it is: the tax class is
\* the posted one, or None when the form posts none
CategoryEdit ==
    \E pk \in 1..Len(categories), tax_class \in TaxClasses \cup {NoTaxClass} :
        /\ ~categories[pk].is_deleted
        /\ categories' = [categories EXCEPT ![pk] =
               CategorySave([@ EXCEPT !.name = categories[pk].name,
                                      !.tax_class = tax_class])]
        /\ last' = [op |-> "category_edit", pk |-> pk, tax_class |-> tax_class]

\* the configuration app saves the store's default tax class
SetDefaultTaxClass ==
    \E tax_class \in TaxClasses \cup {NoTaxClass} :
        /\ storeConfig' = [storeConfig EXCEPT !.default_tax_class = tax_class]
        /\ last' = [op |-> "store_config_save", tax_class |-> tax_class]

(***************************************************************************)
(* Soft delete, activation and the product count of a category             *)
(***************************************************************************)
\* Model.objects: the default manager of HubBaseModel leaves soft-deleted rows out
Objects(rows) == {i \in DOMAIN rows : ~rows[i].is_deleted}

\* Model.all_objects: every row
AllObjects(rows) == DOMAIN rows

\* HubBaseModel.delete(): the row stays and is flagged
SoftDelete(row) == [row EXCEPT !.is_deleted = TRUE]

\* a delete that removes the row from the table
ProductDeleteHard ==
    \E pk \in DOMAIN products \cup {MissingId + MaxProducts} :
        /\ Found(products, pk)
        /\ products' = [i \in DOMAIN products \ {pk} |-> products[i]]
        /\ last' = [op |-> "product_delete", pk |-> pk, result |-> "success"]

\* product_delete: get_object_or_404, then product.delete()
ProductDelete ==
    \E pk \in DOMAIN products \cup {MissingId + MaxProducts} :
        \/ /\ ~Found(products, pk)
           /\ last' = [op |-> "product_delete", pk |-> pk, result |-> "Http404"]
           /\ UNCHANGED products
        \/ /\ Found(products, pk)
           /\ products' = [products EXCEPT ![pk] = SoftDelete(@)]
           /\ last' = [op |-> "product_delete", pk |-> pk, result |-> "success"]

\* category.products.filter(is_active=True).count() of category_delete
ActiveProductCount(c) ==
    Cardinality({p \in Objects(products) : <<p, c>> \in links /\ products[p].is_active})

\* category_delete: refused while the category has active products, else category.delete()
CategoryDelete ==
    \E pk \in 1..(Len(categories) + 1) :
        \/ /\ ~Found(categories, pk)
           /\ last' = [op |-> "category_delete", pk |-> pk, result |-> "Http404"]
           /\ UNCHANGED categories
        \/ /\ Found(categories, pk)
           /\ ActiveProductCount(pk) > 0
           /\ last' = [op |-> "category_delete", pk |-> pk, result |-> "refused"]
           /\ UNCHANGED categories
        \/ /\ Found(categories, pk)
           /\ ActiveProductCount(pk) = 0
           /\ categories' = [categories EXCEPT ![pk] = SoftDelete(@)]
           /\ last' = [op |-> "category_delete", pk |-> pk, result |-> "success"]

\* ProductForm(instance=product).save() with the is_active box as posted, the
\* other fields as they are
ProductFormSave ==
    \E pk \in Objects(products), is_active \in BOOLEAN :
        /\ products' = [products EXCEPT ![pk] = ProductSave([@ EXCEPT !.is_active = is_active])]
        /\ last' = [op |-> "product_form_save", pk |-> pk, is_active |-> is_active]

\* the count over every attached product, whatever its flags
ProductCountAll(c) == Cardinality({p \in DOMAIN products : <<p, c>> \in links})

\* Category.product_count: self.products.filter(is_deleted=False, is_active=True).count()
ProductCount(c) ==
    Cardinality({p \in DOMAIN products :
                    /\ <<p, c>> \in links
                    /\ ~products[p].is_deleted
                    /\ products[p].is_active})

\* ListCategories.execute: product_count of every category of Category.objects.all()
ListCategories ==
    last' = [op |-> "list_categories",
             result |-> [c \in Objects(categories) |-> ProductCount(c)]]

(***************************************************************************)
(* Profit margin                                                           *)
(***************************************************************************)
\* a Decimal result, kept exact as the fraction num/den of two integers
Fraction(num, den) == [num |-> num, den |-> den]

\* the margin taken on the price instead of on the cost
ProfitMarginOnPrice(product) ==
    IF product.price > 0
    THEN Fraction((product.price - product.cost) * 100, product.price)
    ELSE Fraction(0, 1)

\* Product.profit_margin: ((price - cost) / cost) * 100 when cost > 0, else
\* Decimal('0'); price and cost in cents, which the quotient does not depend on
ProfitMargin(product) ==
    IF product.cost > 0
    THEN Fraction((product.price - product.cost) * 100, product.cost)
    ELSE Fraction(0, 1)

\* a caller reads product.profit_margin
ReadProfitMargin ==
    \E id \in DOMAIN products :
        last' = [op |-> "profit_margin", product_id |-> id,
                 result |-> ProfitMargin(products[id])]

(***************************************************************************)
(* populate_ean13 command, one loop iteration at a time                    *)
(***************************************************************************)
\* max_attempts = 100
max_attempts == 100

\* the twelve digits generate_ean13 draws: all zeros, or a one and eleven zeros
PopulateDraws ==
    {[i \in 1..CodeLen |-> 0], [i \in 1..CodeLen |-> IF i = 1 THEN 1 ELSE 0]}

\* Command.generate_ean13 for the digits drawn: code + str(check_digit)
Ean13(code) == code \o Str(CheckDigit(code))

\* a queryset in Meta.ordering = ['-created_at']: the rows created last come first
RECURSIVE Newest(_)
Newest(ids) == IF ids = {} THEN <<>> ELSE <<Max(ids)>> \o Newest(ids \ {Max(ids)})

\* Product.objects.filter(ean13__isnull=True) | Product.objects.filter(ean13='')
WithoutEan13(prods) == {i \in DOMAIN prods : prods[i].ean13 = <<>>}

\* Product.objects.filter(ean13=ean13).exists()
Ean13Exists(prods, ean13) == \E i \in DOMAIN prods : prods[i].ean13 = ean13

\* the inner loop running one time more than max_attempts
ExhaustedOneLate(attempt) == attempt > max_attempts

\* for _ in range(max_attempts) has run out
Exhausted(attempt) == attempt >= max_attempts

\* handle, up to the outer loop: the queryset, its count, the early return
PopulateStart ==
    /\ cmd.pc = "idle"
    /\ cmd' = IF WithoutEan13(products) = {}
              THEN [pc |-> "done", queue |-> <<>>, attempt |-> 0, updated |-> 0,
                    skipped |-> <<>>]
              ELSE [pc |-> "loop", queue |-> Newest(WithoutEan13(products)),
                    attempt |-> 0, updated |-> 0, skipped |-> <<>>]
    /\ last' = [op |-> "populate_ean13", step |-> "start"]
    /\ UNCHANGED products

\* one pass of the inner loop for the product at the head of the queue: a code is
\* generated; if no product holds it, it is saved and the loop breaks
PopulateAttempt ==
    /\ cmd.pc = "loop"
    /\ cmd.queue # <<>>
    /\ ~Exhausted(cmd.attempt)
    /\ \E code \in PopulateDraws :
        \E ean13 \in {Ean13(code)} :
           /\ last' = [op |-> "populate_ean13", step |-> "attempt", ean13 |-> ean13]
           /\ IF Ean13Exists(products, ean13)
              THEN /\ cmd' = [cmd EXCEPT !.attempt = @ + 1]
                   /\ UNCHANGED products
              ELSE /\ products' = [products EXCEPT ![Head(cmd.queue)] =
                                      ProductSave([@ EXCEPT !.ean13 = ean13])]
                   /\ cmd' = [cmd EXCEPT !.queue = Tail(@), !.attempt = 0,
                                         !.updated = @ + 1]

\* the else of the inner loop: the warning, then the next product
PopulateSkip ==
    /\ cmd.pc = "loop"
    /\ cmd.queue # <<>>
    /\ Exhausted(cmd.attempt)
    /\ cmd' = [cmd EXCEPT !.queue = Tail(@), !.attempt = 0,
                          !.skipped = Append(@, [product |-> Head(cmd.queue),
                                                 attempts |-> cmd.attempt])]
    /\ last' = [op |-> "populate_ean13", step |-> "skip"]
    /\ UNCHANGED products

\* after the last product: the closing message
PopulateEnd ==
    /\ cmd.pc = "loop"
    /\ cmd.queue = <<>>
    /\ cmd' = [cmd EXCEPT !.pc = "done"]
    /\ last' = [op |-> "populate_ean13", step |-> "end"]
    /\ UNCHANGED products

(***************************************************************************)
(* Low-stock views: the model property and the two assistant tools         *)
(***************************************************************************)
\* Product.is_low_stock
IsLowStock(product) == product.stock <= product.low_stock_threshold

\* seq[:n]
Take(seq, n) == SubSeq(seq, 1, IF Len(seq) < n THEN Len(seq) ELSE n)

\* limit = args.get('limit', 20)
DefaultLimit == 20

\* low[:50]
AlertsLimit == 50

\* ListProducts.execute with no search and no category: the optional low_stock
\* filter, then the first limit rows in Meta.ordering
ListProducts ==
    \E low_stock \in BOOLEAN :
        LET qs == Newest({i \in DOMAIN products :
                             low_stock => products[i].stock <= products[i].low_stock_threshold})
        IN  last' = [op |-> "list_products", low_stock |-> low_stock,
                     result |-> [products |->
                                     [k \in 1..Len(Take(qs, DefaultLimit)) |->
                                         [id |-> qs[k], name |-> products[qs[k]].name,
                                          sku |-> products[qs[k]].sku,
                                          stock |-> products[qs[k]].stock,
                                          low_stock_threshold |->
                                              products[qs[k]].low_stock_threshold]],
                                 total |-> Len(qs)]]

\* GetStockAlerts.execute: low_stock_threshold__gt=0 and stock__lte=F('low_stock_threshold')
GetStockAlerts ==
    LET low == Newest({i \in DOMAIN products :
                          /\ products[i].low_stock_threshold > 0
                          /\ products[i].stock <= products[i].low_stock_threshold})
    IN  last' = [op |-> "get_stock_alerts",
                 result |-> [alerts |->
                                 [k \in 1..Len(Take(low, AlertsLimit)) |->
                                     [name |-> products[low[k]].name,
                                      sku |-> products[low[k]].sku,
                                      stock |-> products[low[k]].stock,
                                      threshold |-> products[low[k]].low_stock_threshold]],
                             total |-> Len(low)]]

(***************************************************************************)
(* Specifications                                                          *)
(***************************************************************************)
AdjustStockStep ==
    /\ AdjustStock(MaxMovements)
    /\ UNCHANGED <<settings, hookLog, vetoing, alerts, categories, req,
                 links, settingsRows, storeConfig, rng, stockAlerts, cmd>>

BulkAdjustStockStep ==
    /\ BulkAdjustStock(MaxMovements)
    /\ UNCHANGED <<settings, hookLog, vetoing, alerts, categories, req,
                 links, settingsRows, storeConfig, rng, stockAlerts, cmd>>

AdjustStockFew ==
    /\ AdjustStock(MaxFewMovements)
    /\ UNCHANGED <<settings, hookLog, vetoing, alerts, categories, req,
                 links, settingsRows, storeConfig, rng, stockAlerts, cmd>>

BulkAdjustStockFew ==
    /\ BulkAdjustStock(MaxFewMovements)
    /\ UNCHANGED <<settings, hookLog, vetoing, alerts, categories, req,
                 links, settingsRows, storeConfig, rng, stockAlerts, cmd>>

UpdateProductStep ==
    /\ UpdateProduct
    /\ UNCHANGED <<movements, settings, hookLog, vetoing, alerts, categories, req,
                 links, settingsRows, storeConfig, rng, stockAlerts, cmd>>

SaveSettingsStep ==
    /\ SaveSettings
    /\ UNCHANGED <<products, movements, hookLog, vetoing, alerts, categories, req,
                 links, settingsRows, storeConfig, rng, stockAlerts, cmd>>

SetSubscribersStep ==
    /\ SetSubscribers
    /\ UNCHANGED <<products, movements, settings, hookLog, alerts, categories, req,
                 links, settingsRows, storeConfig, rng, stockAlerts, cmd>>

DoBeforeStockChangeStep ==
    /\ DoBeforeStockChange
    /\ UNCHANGED <<products, movements, settings, vetoing, alerts, categories, req,
                 links, settingsRows, storeConfig, rng, stockAlerts, cmd>>

DoAfterStockChangeStep ==
    /\ DoAfterStockChange
    /\ UNCHANGED <<products, movements, settings, vetoing, alerts, categories, req,
                 links, settingsRows, storeConfig, rng, stockAlerts, cmd>>

CheckLowStockStep ==
    /\ CheckLowStock
    /\ UNCHANGED <<products, movements, settings, hookLog, vetoing, categories, req,
                 links, settingsRows, storeConfig, rng, stockAlerts, cmd>>

CreateCategoryStep ==
    /\ CreateCategory
    /\ UNCHANGED <<products, movements, settings, hookLog, vetoing, alerts, req,
                 links, settingsRows, storeConfig, rng, stockAlerts, cmd>>

CategoryCreateStep ==
    /\ CategoryCreate
    /\ UNCHANGED <<products, movements, settings, hookLog, vetoing, alerts, req,
                 links, settingsRows, storeConfig, rng, stockAlerts, cmd>>

CallStep ==
    /\ \E r \in Requests : Call(r)
    /\ UNCHANGED <<settings, hookLog, vetoing, alerts, categories, last,
                 links, settingsRows, storeConfig, rng, stockAlerts, cmd>>

GetProductStep ==
    /\ \E r \in Requests : GetProduct(r)
    /\ UNCHANGED <<settings, hookLog, vetoing, alerts, categories, last,
                 links, settingsRows, storeConfig, rng, stockAlerts, cmd>>

CreateMovementStep ==
    /\ \E r \in Requests : CreateMovement(r)
    /\ UNCHANGED <<settings, hookLog, vetoing, alerts, categories, last,
                 links, settingsRows, storeConfig, rng, stockAlerts, cmd>>

SaveStep ==
    /\ \E r \in Requests : Save(r)
    /\ UNCHANGED <<settings, hookLog, vetoing, alerts, categories, last,
                 links, settingsRows, storeConfig, rng, stockAlerts, cmd>>

SaveFailsStep ==
    /\ \E r \in Requests : SaveFails(r)
    /\ UNCHANGED <<settings, hookLog, vetoing, alerts, categories, last,
                 links, settingsRows, storeConfig, rng, stockAlerts, cmd>>

\* the stock tools, one call at a time
Next ==
    \/ AdjustStockStep
    \/ BulkAdjustStockStep

Spec == Init /\ [][Next]_vars

\* every operation that writes Product.stock, and the settings form
NextStock ==
    \/ AdjustStockFew
    \/ BulkAdjustStockFew
    \/ UpdateProductStep
    \/ SaveSettingsStep

SpecStock == Init /\ [][NextStock]_vars

\* adjust_stock beside the hook helpers and their subscribers
NextHooks ==
    \/ AdjustStockStep
    \/ SetSubscribersStep
    \/ DoBeforeStockChangeStep
    \/ DoAfterStockChangeStep

SpecHooks == Init /\ [][NextHooks]_vars

\* stock_changed signals arriving, thresholds being edited
NextAlert ==
    \/ CheckLowStockStep
    \/ UpdateProductStep

SpecAlert == Init /\ [][NextAlert]_vars

\* category creation
NextCat ==
    \/ CreateCategoryStep
    \/ CategoryCreateStep

SpecCat == Init /\ [][NextCat]_vars

\* adjust_stock requests interleaved statement by statement
NextConc ==
    \/ CallStep
    \/ GetProductStep
    \/ CreateMovementStep
    \/ SaveStep
    \/ SaveFailsStep

SpecConc == Init /\ [][NextConc]_vars

\* what the create tool, the product form and an import file may carry as SKU:
\* none, one in use, a new one
SkuArgs ==
    [name : {NameA}, price : {250}]
        \cup [name : {NameA}, price : {250}, cost : {100}]
        \cup [name : {NameA}, price : {250}, cost : {100}, sku : {SkuA}]

SkuPosts ==
    [name : {NameA}, sku : {SkuC}]
        \cup [name : {NameA}, sku : {<<>>, SkuA}, price : {250}, cost : {100},
              low_stock_threshold : {0}]

SkuRows ==
    [sku : {<<" ">>, SkuA, SkuC}, name : {NameA}, categories : {<<>>}, ean13 : {EanA},
     price : {250}, cost : {100}, low_stock_threshold : {0}]
        \cup [sku : {SkuC}, name : {NameA}, categories : {<<>>}, ean13 : {<<>>},
              price : {250}, cost : {100}, low_stock_threshold : {0}]

CreateProductStep ==
    /\ CreateProduct(SkuArgs)
    /\ UNCHANGED <<movements, settings, hookLog, vetoing, alerts, categories, req,
                   settingsRows, storeConfig, rng, stockAlerts, cmd>>

ProductCreateStep ==
    /\ ProductCreate(SkuPosts)
    /\ UNCHANGED <<movements, settings, hookLog, vetoing, alerts, categories, req,
                   settingsRows, storeConfig, rng, stockAlerts, cmd>>

ProductEditStep ==
    /\ ProductEdit(SkuPosts)
    /\ UNCHANGED <<movements, settings, hookLog, vetoing, alerts, categories, req,
                   settingsRows, storeConfig, rng, stockAlerts, cmd>>

ImportCsvStep ==
    /\ ImportCsv(SkuRows)
    /\ UNCHANGED <<movements, settings, hookLog, vetoing, alerts, req,
                   settingsRows, storeConfig, rng, stockAlerts, cmd>>

ImportExcelStep ==
    /\ ImportExcel(SkuRows)
    /\ UNCHANGED <<movements, settings, hookLog, vetoing, alerts, req,
                   settingsRows, storeConfig, rng, stockAlerts, cmd>>

\* product creations, edits and imports
NextSku ==
    \/ CreateProductStep
    \/ ProductCreateStep
    \/ ProductEditStep
    \/ ImportCsvStep
    \/ ImportExcelStep

SpecSku == Init /\ [][NextSku]_vars

GenerateEan13Step ==
    /\ GenerateEan13
    /\ UNCHANGED <<products, movements, settings, hookLog, vetoing, alerts, categories, req,
                   links, settingsRows, storeConfig, rng, stockAlerts, cmd>>

\* any twelve digits may come out of the random generator
InitEan ==
    /\ InitStore
    /\ rng \in [1..CodeLen -> RandomDigits]

NextEan == GenerateEan13Step

SpecEan == InitEan /\ [][NextEan]_vars

GetSettingsStep ==
    /\ GetSettings
    /\ UNCHANGED <<products, movements, settings, hookLog, vetoing, alerts, categories, req,
                   links, storeConfig, rng, stockAlerts, cmd>>

SettingsFormSaveStep ==
    /\ SettingsFormSave
    /\ UNCHANGED <<products, movements, settings, hookLog, vetoing, alerts, categories, req,
                   links, storeConfig, rng, stockAlerts, cmd>>

\* the hubs reading and editing their settings
NextSettings ==
    \/ GetSettingsStep
    \/ SettingsFormSaveStep

SpecSettings == Init /\ [][NextSettings]_vars

\* the names the categories of the tax scenarios are created with
TaxCategoryNames == {<<"c", "a", "f", "e">>, <<"t", "e", "a", " ">>}

\* product form POSTs that name none, one or both of them, with and without a
\* tax class of the product's own
TaxPosts ==
    [name : {NameA}, sku : {SkuA}, price : {250},
     category_names : {{}, {<<"c", "a", "f", "e">>}, TaxCategoryNames}]
        \cup [name : {NameA}, sku : {SkuA}, price : {250},
              category_names : {{}, {<<"c", "a", "f", "e">>}, TaxCategoryNames},
              tax_class_id : TaxClasses]

TaxCategoryCreateStep ==
    /\ CategoryCreate
    /\ last'.name \in TaxCategoryNames
    /\ Len(categories') <= MaxTaxCategories
    /\ UNCHANGED <<products, movements, settings, hookLog, vetoing, alerts, req,
                   links, settingsRows, storeConfig, rng, stockAlerts, cmd>>

CategoryEditStep ==
    /\ CategoryEdit
    /\ UNCHANGED <<products, movements, settings, hookLog, vetoing, alerts, req,
                   links, settingsRows, storeConfig, rng, stockAlerts, cmd>>

TaxProductEditStep ==
    /\ ProductEdit(TaxPosts)
    /\ last'.pk = 1
    /\ UNCHANGED <<movements, settings, hookLog, vetoing, alerts, categories, req,
                   settingsRows, storeConfig, rng, stockAlerts, cmd>>

SetDefaultTaxClassStep ==
    /\ SetDefaultTaxClass
    /\ UNCHANGED <<products, movements, settings, hookLog, vetoing, alerts, categories, req,
                   links, settingsRows, rng, stockAlerts, cmd>>

GetEffectiveTaxClassStep ==
    /\ GetEffectiveTaxClass
    /\ UNCHANGED <<products, movements, settings, hookLog, vetoing, alerts, categories, req,
                   links, settingsRows, storeConfig, rng, stockAlerts, cmd>>

\* tax classes being set at the three levels, and read
NextTax ==
    \/ TaxCategoryCreateStep
    \/ CategoryEditStep
    \/ TaxProductEditStep
    \/ SetDefaultTaxClassStep
    \/ GetEffectiveTaxClassStep

SpecTax == Init /\ [][NextTax]_vars

\* product form POSTs that attach the product to the category, or to none
CountPosts ==
    [name : {NameA}, sku : {SkuA}, price : {250},
     category_names : {{}, {<<"c", "a", "f", "e">>}}]

CountCategoryCreateStep ==
    /\ CategoryCreate
    /\ last'.name = <<"c", "a", "f", "e">>
    /\ Len(categories') <= MaxCountCategories
    /\ UNCHANGED <<products, movements, settings, hookLog, vetoing, alerts, req,
                   links, settingsRows, storeConfig, rng, stockAlerts, cmd>>

CountProductCreateStep ==
    /\ ProductCreate(CountPosts)
    /\ Cardinality(DOMAIN products') <= MaxCountProducts
    /\ UNCHANGED <<movements, settings, hookLog, vetoing, alerts, categories, req,
                   settingsRows, storeConfig, rng, stockAlerts, cmd>>

CountProductEditStep ==
    /\ ProductEdit(CountPosts)
    /\ UNCHANGED <<movements, settings, hookLog, vetoing, alerts, categories, req,
                   settingsRows, storeConfig, rng, stockAlerts, cmd>>

ProductFormSaveStep ==
    /\ ProductFormSave
    /\ UNCHANGED <<movements, settings, hookLog, vetoing, alerts, categories, req,
                   links, settingsRows, storeConfig, rng, stockAlerts, cmd>>

ProductDeleteStep ==
    /\ ProductDelete
    /\ UNCHANGED <<movements, settings, hookLog, vetoing, alerts, categories, req,
                   links, settingsRows, storeConfig, rng, stockAlerts, cmd>>

CategoryDeleteStep ==
    /\ CategoryDelete
    /\ UNCHANGED <<products, movements, settings, hookLog, vetoing, alerts, req,
                   links, settingsRows, storeConfig, rng, stockAlerts, cmd>>

ListCategoriesStep ==
    /\ ListCategories
    /\ UNCHANGED <<products, movements, settings, hookLog, vetoing, alerts, categories, req,
                   links, settingsRows, storeConfig, rng, stockAlerts, cmd>>

\* products attached to categories, deactivated and deleted; categories listed
\* and deleted
NextCatalog ==
    \/ CountCategoryCreateStep
    \/ CountProductCreateStep
    \/ CountProductEditStep
    \/ ProductFormSaveStep
    \/ ProductDeleteStep
    \/ CategoryDeleteStep
    \/ ListCategoriesStep

SpecCatalog == Init /\ [][NextCatalog]_vars

\* product form POSTs with a price of 0.00, 10.00 or 15.00 and a cost of 3.00
\* or 10.00, or no cost (0.00)
MarginPosts ==
    [name : {NameA}, sku : {SkuA}, price : {0, 1000, 1500}]
        \cup [name : {NameA}, sku : {SkuA}, price : {0, 1000, 1500}, cost : {300, 1000}]

MarginProductCreateStep ==
    /\ ProductCreate(MarginPosts)
    /\ Cardinality(DOMAIN products') <= MaxCountProducts
    /\ UNCHANGED <<movements, settings, hookLog, vetoing, alerts, categories, req,
                   settingsRows, storeConfig, rng, stockAlerts, cmd>>

MarginProductEditStep ==
    /\ ProductEdit(MarginPosts)
    /\ UNCHANGED <<movements, settings, hookLog, vetoing, alerts, categories, req,
                   settingsRows, storeConfig, rng, stockAlerts, cmd>>

ReadProfitMarginStep ==
    /\ ReadProfitMargin
    /\ UNCHANGED <<products, movements, settings, hookLog, vetoing, alerts, categories, req,
                   links, settingsRows, storeConfig, rng, stockAlerts, cmd>>

\* prices and costs being set, margins being read
NextMargin ==
    \/ MarginProductCreateStep
    \/ MarginProductEditStep
    \/ ReadProfitMarginStep

SpecMargin == Init /\ [][NextMargin]_vars

\* product form POSTs that make the product a service, or a physical product
ServicePosts ==
    [name : {NameA}, sku : {SkuA}, price : {250}, stock : {2},
     product_type : {"service", "physical"}]

ServiceProductEditStep ==
    /\ ProductEdit(ServicePosts)
    /\ UNCHANGED <<movements, settings, hookLog, vetoing, alerts, categories, req,
                   settingsRows, storeConfig, rng, stockAlerts, cmd>>

\* the stock tools on a catalogue that holds services
NextService ==
    \/ ServiceProductEditStep
    \/ AdjustStockFew
    \/ BulkAdjustStockFew

SpecService == Init /\ [][NextService]_vars

\* import rows for the two products, whose categories column reads "cab", "CAB"
\* or "cab, tab"
CategoryRows ==
    [sku : {SkuA, SkuB}, name : {NameA}, ean13 : {EanA},
     categories : {<<"c", "a", "b">>, <<"C", "A", "B">>,
                   <<"c", "a", "b", ",", " ", "t", "a", "b">>}]

CategoryImportCsvStep ==
    /\ ImportCsv(CategoryRows)
    /\ UNCHANGED <<movements, settings, hookLog, vetoing, alerts, req,
                   settingsRows, storeConfig, rng, stockAlerts, cmd>>

CategoryImportExcelStep ==
    /\ ImportExcel(CategoryRows)
    /\ UNCHANGED <<movements, settings, hookLog, vetoing, alerts, req,
                   settingsRows, storeConfig, rng, stockAlerts, cmd>>

\* product files imported over and over
NextImport ==
    \/ CategoryImportCsvStep
    \/ CategoryImportExcelStep

SpecImport == Init /\ [][NextImport]_vars

\* product form POSTs that carry a stock of 5, or none (0)
AuditPosts == [name : {NameA}, sku : {SkuA}, price : {250}, stock : {5}]
                  \cup [name : {NameA}, sku : {SkuA}, price : {250}]

AuditProductEditStep ==
    /\ ProductEdit(AuditPosts)
    /\ UNCHANGED <<movements, settings, hookLog, vetoing, alerts, categories, req,
                   settingsRows, storeConfig, rng, stockAlerts, cmd>>

\* every operation of the module that writes Product.stock
NextAudit ==
    \/ AdjustStockFew
    \/ BulkAdjustStockFew
    \/ UpdateProductStep
    \/ AuditProductEditStep

SpecAudit == Init /\ [][NextAudit]_vars

\* the stock tools beside the stock_changed receiver, which handles every signal
\* another module sends; neither tool sends one
NextNotify ==
    \/ AdjustStockFew
    \/ BulkAdjustStockFew
    \/ CheckLowStockStep

SpecNotify == Init /\ [][NextNotify]_vars /\ WF_vars(CheckLowStockStep)

\* products whose SKU or name is another product's barcode or name, as the
\* create tool and the product form store them (name stripped and capitalized)
ResolveProducts ==
    {NewProduct(<<"7", "7">>, <<>>, <<"C", "a", "b">>, 5, 0, "physical"),
     NewProduct(<<"T", "e", "a">>, <<>>, <<"B", "a", "t">>, 5, 0, "physical"),
     NewProduct(<<"C", "3">>, <<>>, <<"8", "8">>, 5, 0, "physical"),
     NewProduct(<<"C", "4">>, <<>>, <<"C", "u", "p">>, 5, 0, "physical"),
     NewProduct(<<"Z", "9">>, <<>>, <<"T", "e", "a">>, 5, 0, "physical")}

\* references that hit at several levels at once, one that hits nowhere
ResolveItems ==
    {[reference |-> <<"7", "7">>, quantity |-> 1],
     [reference |-> <<"t", "e", "a">>, quantity |-> 1],
     [reference |-> <<"8", "8">>, quantity |-> 1],
     [reference |-> <<"c", "u", "p">>, quantity |-> 1],
     [reference |-> <<"a", "1">>, quantity |-> 1],
     [reference |-> <<"z", "z">>, quantity |-> 1]}

\* the tables of an installation whose catalogue is prods, nothing else done yet
InitCatalogue(prods) ==
    /\ products = prods
    /\ movements = <<>>
    /\ settings = DefaultSettings
    /\ hookLog = <<>>
    /\ vetoing = FALSE
    /\ alerts = <<>>
    /\ categories = <<>>
    /\ req = [r \in Requests |-> IdleRequest]
    /\ last = NoOp
    /\ links = {}
    /\ settingsRows = <<>>
    /\ storeConfig = DefaultStoreConfig
    /\ stockAlerts = <<>>
    /\ cmd = IdleCommand
    /\ rng = [i \in 1..CodeLen |-> 0]

\* the catalogue of the installation with two more products in it
InitResolve ==
    \E third, fourth \in ResolveProducts :
        InitCatalogue(1 :> NewProduct(SkuA, EanA, NameA, 100, 2, "physical")
                      @@ 2 :> NewProduct(SkuB, EanB, NameB, 0, 0, "physical")
                      @@ 3 :> third @@ 4 :> fourth)

ResolveBulkAdjustStockStep ==
    /\ BulkAdjustStockOf(MaxFewMovements, ResolveItems)
    /\ UNCHANGED <<settings, hookLog, vetoing, alerts, categories, req,
                   links, settingsRows, storeConfig, rng, stockAlerts, cmd>>

\* delivery notes over a catalogue where one reference fits several products
NextResolve == ResolveBulkAdjustStockStep

SpecResolve == InitResolve /\ [][NextResolve]_vars

PopulateStartStep ==
    /\ PopulateStart
    /\ UNCHANGED <<movements, settings, hookLog, vetoing, alerts, categories, req,
                   links, settingsRows, storeConfig, rng, stockAlerts>>

PopulateAttemptStep ==
    /\ PopulateAttempt
    /\ UNCHANGED <<movements, settings, hookLog, vetoing, alerts, categories, req,
                   links, settingsRows, storeConfig, rng, stockAlerts>>

PopulateSkipStep ==
    /\ PopulateSkip
    /\ UNCHANGED <<movements, settings, hookLog, vetoing, alerts, categories, req,
                   links, settingsRows, storeConfig, rng, stockAlerts>>

PopulateEndStep ==
    /\ PopulateEnd
    /\ UNCHANGED <<movements, settings, hookLog, vetoing, alerts, categories, req,
                   links, settingsRows, storeConfig, rng, stockAlerts>>

\* a catalogue where one product holds a code the generator can draw and two
\* products hold none
InitPopulate ==
    InitCatalogue(1 :> NewProduct(SkuA, Ean13([i \in 1..CodeLen |-> 0]), NameA,
                                  100, 2, "physical")
                  @@ 2 :> NewProduct(SkuB, <<>>, NameB, 0, 0, "physical")
                  @@ 3 :> NewProduct(SkuC, <<>>, NameB, 0, 0, "physical"))

\* the command run once; a started command keeps running
NextPopulate ==
    \/ PopulateStartStep
    \/ PopulateAttemptStep
    \/ PopulateSkipStep
    \/ PopulateEndStep

SpecPopulate == InitPopulate /\ [][NextPopulate]_vars /\ WF_vars(NextPopulate)

\* Excel rows for two new products, one carrying the barcode of a product of the
\* catalogue and one carrying none
BarcodeRows ==
    [sku : {SkuC, <<"C", "4">>}, name : {NameA}, ean13 : {EanA, <<>>},
     categories : {<<>>}]

BarcodeImportExcelStep ==
    /\ cmd.pc = "idle"
    /\ ImportExcel(BarcodeRows)
    /\ UNCHANGED <<movements, settings, hookLog, vetoing, alerts, req,
                   settingsRows, storeConfig, rng, stockAlerts, cmd>>

\* product files imported, then the command run
NextBarcodes ==
    \/ BarcodeImportExcelStep
    \/ PopulateStartStep
    \/ PopulateAttemptStep
    \/ PopulateSkipStep
    \/ PopulateEndStep

SpecBarcodes == Init /\ [][NextBarcodes]_vars

\* CSV rows: two that are in order, four with a SKU and a missing name or a
\* negative price, cost or stock, and one with a negative price and no SKU
CsvRows ==
    [sku : {SkuA, SkuC}, name : {NameA}, ean13 : {EanA}, categories : {<<>>},
     price : {250}, cost : {100}, stock : {5}]
        \cup [sku : {SkuC}, name : {<<" ">>}, ean13 : {EanA}, categories : {<<>>},
              price : {250}, cost : {100}, stock : {5}]
        \cup [sku : {SkuC}, name : {NameB}, ean13 : {EanA}, categories : {<<>>},
              price : {-1}, cost : {100}, stock : {5}]
        \cup [sku : {SkuC}, name : {NameB}, ean13 : {EanA}, categories : {<<>>},
              price : {250}, cost : {-1}, stock : {5}]
        \cup [sku : {SkuC}, name : {NameB}, ean13 : {EanA}, categories : {<<>>},
              price : {250}, cost : {100}, stock : {-1}]
        \cup [sku : {<<" ">>}, name : {NameB}, ean13 : {EanA}, categories : {<<>>},
              price : {-1}, cost : {100}, stock : {5}]

CsvImportStep ==
    /\ ImportCsv(CsvRows)
    /\ UNCHANGED <<movements, settings, hookLog, vetoing, alerts, req,
                   settingsRows, storeConfig, rng, stockAlerts, cmd>>

\* CSV files with rows of both kinds, imported one after another
NextCsv == CsvImportStep

SpecCsv == Init /\ [][NextCsv]_vars

ListProductsStep ==
    /\ ListProducts
    /\ UNCHANGED <<products, movements, settings, hookLog, vetoing, alerts, categories,
                   req, links, settingsRows, storeConfig, rng, stockAlerts, cmd>>

GetStockAlertsStep ==
    /\ GetStockAlerts
    /\ UNCHANGED <<products, movements, settings, hookLog, vetoing, alerts, categories,
                   req, links, settingsRows, storeConfig, rng, stockAlerts, cmd>>

\* stocks and thresholds being edited, the two low-stock listings being read
NextLowStock ==
    \/ UpdateProductStep
    \/ ListProductsStep
    \/ GetStockAlertsStep

SpecLowStock == Init /\ [][NextLowStock]_vars

(***************************************************************************)
(* Properties                                                              *)
(***************************************************************************)
\* the last operation was an adjust_stock that found its product
AdjustDone ==
    /\ last.op = "adjust_stock"
    /\ last.product_id \in DOMAIN last.before.products

\* the rows added to the audit log by the last operation
AddedMovements ==
    SubSeq(movements, Len(last.before.movements) + 1, Len(movements))

\* the audit rows present before the last operation are still there, unchanged
OldMovementsKept ==
    /\ Len(movements) >= Len(last.before.movements)
    /\ SubSeq(movements, 1, Len(last.before.movements)) = last.before.movements

ItemFails(item) ==
    \/ Strip(item.reference) = <<>>
    \/ item.quantity = 0
    \/ \A i \in DOMAIN last.before.products :
           LET p == last.before.products[i]
               ref == Strip(item.reference)
           IN  /\ ~IExact(p.sku, ref)
               /\ p.ean13 # ref
               /\ ~IContains(p.name, ref)

\* the items of the last bulk adjustment that were applied, in list order
AppliedItems == SelectSeq(last.items, LAMBDA item : ~ItemFails(item))

FailedItems == SelectSeq(last.items, LAMBDA item : ItemFails(item))

RECURSIVE SumQuantity(_, _)
SumQuantity(rows, id) ==
    IF rows = <<>> THEN 0
    ELSE (IF Head(rows).product = id
          THEN (IF Head(rows).movement_type = "in" THEN Head(rows).quantity
                ELSE 0 - Head(rows).quantity)
          ELSE 0) + SumQuantity(Tail(rows), id)

\* C3: in bulk_adjust_stock an item that fails (blank reference, zero quantity,
\* no product found) goes to not_found and does not stop the loop: every item
\* that resolves, before or after it, is applied (one audit row each, in list
\* order, and its quantity added to the product's stock), and nothing written
\* earlier is undone.
C3_BulkPartialFailure ==
    last.op = "bulk_adjust_stock" =>
        /\ Len(last.result.not_found) = Len(FailedItems)
        /\ \A k \in 1..Len(FailedItems) :
               last.result.not_found[k].reference = Strip(FailedItems[k].reference)
        /\ Len(last.result.adjusted) = Len(AppliedItems)
        /\ Len(last.result.adjusted) + Len(last.result.not_found) = Len(last.items)
        /\ OldMovementsKept
        /\ Len(AddedMovements) = Len(AppliedItems)
        /\ \A k \in 1..Len(AppliedItems) :
               /\ AddedMovements[k].quantity =
                      (IF AppliedItems[k].quantity < 0 THEN 0 - AppliedItems[k].quantity
                       ELSE AppliedItems[k].quantity)
               /\ AddedMovements[k].movement_type =
                      (IF AppliedItems[k].quantity > 0 THEN "in" ELSE "adjustment")
               /\ last.result.adjusted[k].quantity = AppliedItems[k].quantity
               /\ last.result.adjusted[k].reference = AppliedItems[k].reference
               /\ products[AddedMovements[k].product].sku = last.result.adjusted[k].sku
        /\ \A id \in DOMAIN products :
               products[id].stock =
                   last.before.products[id].stock + SumQuantity(AddedMovements, id)

\* a bulk adjustment of three items whose middle item failed, after an earlier
\* adjustment: the items around it were applied
C3_Witness ==
    /\ last.op = "bulk_adjust_stock"
    /\ Len(last.items) = 3
    /\ ~ItemFails(last.items[1])
    /\ ItemFails(last.items[2])
    /\ ~ItemFails(last.items[3])
    /\ Len(last.result.adjusted) = 2
    /\ Len(last.result.not_found) = 1
    /\ Len(AddedMovements) = 2

\* the requests that have ended, normally or by an exception
Ended(r) == req[r].pc \in {"done", "raised", "failed"}

\* C2 (as claimed): adjust_stock(+5) and adjust_stock(-3) running together on a
\* product that starts at stock 100 end with stock 102 and two audit rows.
C2_NoLostUpdate ==
    (/\ req[1].pc = "done" /\ req[1].quantity = 5
     /\ req[2].pc = "done" /\ req[2].quantity = -3
     /\ \A r \in Requests \ {1, 2} : req[r].pc = "idle")
        => /\ products[1].stock = 102
           /\ Len(movements) = 2

\* C8 (as claimed): an adjust_stock that fails between writing its audit row and
\* saving the stock leaves no audit row: once every request has ended, there are
\* as many audit rows as adjustments that saved their stock.
C8_AuditRowRolledBack ==
    (\A r \in Requests : req[r].pc = "idle" \/ Ended(r))
        => Len(movements) = Cardinality({r \in Requests : req[r].pc = "done"})

\* the last operation was a stock_changed signal for a product that exists
SignalHandled ==
    /\ last.op = "stock_changed"
    /\ last.product_id \in DOMAIN last.before.products

\* the low_stock_alert signals sent while handling the last stock_changed
AddedAlerts == SubSeq(alerts, Len(last.before.alerts) + 1, Len(alerts))

\* C4 (as claimed): for a product with threshold T > 0, a stock_changed with
\* new_quantity <= T sends exactly one low_stock_alert, one with new_quantity > T
\* sends none.
C4_AlertAtOrBelowThreshold ==
    (SignalHandled /\ last.before.products[last.product_id].low_stock_threshold > 0) =>
        LET T == last.before.products[last.product_id].low_stock_threshold
        IN  /\ (last.new_quantity <= T => Len(AddedAlerts) = 1)
            /\ (last.new_quantity > T => Len(AddedAlerts) = 0)

\* C5 (as claimed): for a product with threshold 0, no stock_changed sends a
\* low_stock_alert, whatever new_quantity it carries.
C5_ZeroThresholdNeverAlerts ==
    (SignalHandled /\ last.before.products[last.product_id].low_stock_threshold = 0)
        => Len(AddedAlerts) = 0

\* C5 (amended): for a product with threshold 0, a stock_changed sends exactly
\* one low_stock_alert, for that product and carrying new_quantity and minimum 0,
\* when new_quantity <= 0, and none when new_quantity > 0.
C5_ZeroThresholdAlertsAtZero ==
    (SignalHandled /\ last.before.products[last.product_id].low_stock_threshold = 0) =>
        /\ SubSeq(alerts, 1, Len(last.before.alerts)) = last.before.alerts
        /\ (last.new_quantity > 0 => Len(AddedAlerts) = 0)
        /\ (last.new_quantity <= 0 =>
               /\ Len(AddedAlerts) = 1
               /\ AddedAlerts[1].product = last.product_id
               /\ AddedAlerts[1].current_stock = last.new_quantity
               /\ AddedAlerts[1].minimum_stock = 0)

\* a stock_changed carrying exactly 0 for a product with threshold 0 sent an alert
C5_Witness ==
    /\ SignalHandled
    /\ last.before.products[last.product_id].low_stock_threshold = 0
    /\ last.new_quantity = 0
    /\ Len(AddedAlerts) = 1

\* C6 (as claimed): every adjust_stock runs before_stock_change once before the
\* stock is modified and after_stock_change once after, each with the product,
\* the old quantity, the new quantity and the reason.
C6_HookPairPerAdjustment ==
    AdjustDone =>
        LET id == last.product_id
            old == last.before.products[id].stock
        IN  hookLog = last.before.hookLog \o
                <<HookCall("inventory.before_stock_change", id, old,
                           old + last.quantity, last.reason),
                  HookCall("inventory.after_stock_change", id, old,
                           old + last.quantity, last.reason)>>

\* C7 (as claimed): with a before_stock_change subscriber that raises, adjust_stock
\* changes nothing (stock and audit rows as before) and reports the failure.
C7_VetoAborts ==
    (AdjustDone /\ last.before.vetoing) =>
        /\ products = last.before.products
        /\ movements = last.before.movements
        /\ last.result = "ValidationError"

\* C9 (as claimed): while allow_negative_stock is off, no product has stock below 0.
C9_NoNegativeStock ==
    ~settings.allow_negative_stock => \A id \in DOMAIN products : products[id].stock >= 0

\* base followed by "-" and one digit
Suffixed(base) == {base \o <<"-", d>> : d \in {"1", "2", "3", "4", "5", "6", "7", "8", "9"}}

\* C10 (as claimed): every saved category has a non-empty slug, no two categories
\* share a slug, and a category whose base slug was already in use has that
\* base slug with a numeric suffix.
C10_SlugsUniqueNonEmpty ==
    /\ \A i \in 1..Len(categories) : categories[i].slug # <<>>
    /\ \A i, j \in 1..Len(categories) :
           i < j =>
               /\ categories[i].slug # categories[j].slug
               /\ (Slugify(categories[j].name) = Slugify(categories[i].name)
                      => categories[j].slug \in Suffixed(Slugify(categories[j].name)))

\* C11 (as claimed): after any sequence of product creations, updates and
\* imports, every product has a non-empty SKU and no two products have the same SKU.
C11_SkuUniqueNonEmpty ==
    /\ \A i \in DOMAIN products : products[i].sku # <<>>
    /\ \A i, j \in DOMAIN products : i # j => products[i].sku # products[j].sku

\* C12: every code returned by generate_ean13 has 13 digits, and its 13th digit
\* equals (10 - ((sum of the digits at indices 0,2,...,10) + 3 * (sum of the
\* digits at indices 1,3,...,11)) mod 10) mod 10 over its first 12 digits.
C12_Ean13CheckDigit ==
    last.op = "generate_ean13" =>
        LET c == last.result
        IN  /\ Len(c) = 13
            /\ \A i \in 1..Len(c) : c[i] \in 0..9
            /\ SubSeq(c, 1, 12) = last.code
            /\ c[13] = (10 - ((c[1] + c[3] + c[5] + c[7] + c[9] + c[11]
                               + 3 * (c[2] + c[4] + c[6] + c[8] + c[10] + c[12])) % 10)) % 10

\* a generated code whose weighted sum is a multiple of 10 without being 0: the
\* check digit is 0
C12_Witness ==
    /\ last.op = "generate_ean13"
    /\ last.result[13] = 0
    /\ last.result[1] = 9
    /\ last.result[2] = 1

\* C13: get_settings(hub) is a get-or-create: the first call for a hub creates one
\* row with the defaults (negative stock off, low-stock alerts on, auto-SKU on,
\* barcode on), every later call for that hub returns the same row and changes
\* nothing, and after any sequence of calls there is exactly one row per hub.
C13_GetSettingsGetOrCreate ==
    /\ \A h \in HubIds : Cardinality({i \in 1..Len(settingsRows) : settingsRows[i].hub_id = h}) <= 1
    /\ \A i, j \in 1..Len(settingsRows) : i # j => settingsRows[i].pk # settingsRows[j].pk
    /\ last.op = "get_settings" =>
           LET h == last.hub_id
               was == {i \in 1..Len(last.rows_before) : last.rows_before[i].hub_id = h}
               now == {i \in 1..Len(settingsRows) : settingsRows[i].hub_id = h}
           IN  /\ Cardinality(now) = 1
               /\ \A i \in now : last.result = settingsRows[i]
               /\ last.result.hub_id = h
               /\ (was = {} =>
                       /\ Len(settingsRows) = Len(last.rows_before) + 1
                       /\ SubSeq(settingsRows, 1, Len(last.rows_before)) = last.rows_before
                       /\ ~last.result.allow_negative_stock
                       /\ last.result.low_stock_alert_enabled
                       /\ last.result.auto_generate_sku
                       /\ last.result.barcode_enabled)
               /\ (was # {} =>
                       /\ settingsRows = last.rows_before
                       /\ \A i \in was : last.result = last.rows_before[i])

\* a second get_settings for a hub whose row had been edited, with another hub's
\* row in the table: the edited row came back
C13_Witness ==
    /\ last.op = "get_settings"
    /\ ~last.created
    /\ last.result.allow_negative_stock
    /\ Len(settingsRows) = 2

\* the categories of product id that set a tax class
TaxedCategories(id) ==
    {c \in 1..Len(categories) : <<id, c>> \in links /\ categories[c].tax_class # NoTaxClass}

\* C14: get_effective_tax_class returns the product's own tax class when one is
\* set; otherwise the tax class of the first of the product's categories that
\* has one; otherwise the store's default tax class; it returns None only when
\* none of the three levels sets a tax class.
C14_EffectiveTaxClass ==
    last.op = "get_effective_tax_class" =>
        LET id == last.product_id
            own == products[id].tax_class
        IN  /\ (own # NoTaxClass => last.result = own)
            /\ (own = NoTaxClass /\ TaxedCategories(id) # {} =>
                    \E c \in TaxedCategories(id) :
                        /\ last.result = categories[c].tax_class
                        /\ \A d \in TaxedCategories(id) :
                               /\ categories[d].sort_order >= categories[c].sort_order
                               /\ (categories[d].sort_order = categories[c].sort_order
                                      => ~NameLess(categories[d].name, categories[c].name)))
            /\ (own = NoTaxClass /\ TaxedCategories(id) = {} =>
                    last.result = storeConfig.default_tax_class)
            /\ (last.result = NoTaxClass <=>
                    /\ own = NoTaxClass
                    /\ TaxedCategories(id) = {}
                    /\ storeConfig.default_tax_class = NoTaxClass)

\* a product without a tax class of its own, in two categories: the one that
\* comes first sets none, the second sets one that differs from the store's default
C14_Witness ==
    /\ last.op = "get_effective_tax_class"
    /\ products[last.product_id].tax_class = NoTaxClass
    /\ storeConfig.default_tax_class = "general"
    /\ last.result = "reduced"
    /\ \E c, d \in 1..Len(categories) :
           /\ <<last.product_id, c>> \in links
           /\ <<last.product_id, d>> \in links
           /\ CategoryBefore(categories[c], categories[d])
           /\ categories[c].tax_class = NoTaxClass
           /\ categories[d].tax_class = "reduced"

\* the products attached to category c
Attached(c) == {p \in DOMAIN products : <<p, c>> \in links}

\* C15: a category's product_count equals the number of products attached to it
\* that are both active and not soft-deleted: inactive and soft-deleted products
\* are not counted.
C15_ProductCount ==
    last.op = "list_categories" =>
        \A c \in DOMAIN last.result :
            /\ last.result[c] =
                   Cardinality(Attached(c))
                       - Cardinality({p \in Attached(c) :
                                         products[p].is_deleted \/ ~products[p].is_active})
            /\ last.result[c] >= 0

\* a category with three products attached, one inactive and one soft-deleted:
\* its product_count is 1
C15_Witness ==
    /\ last.op = "list_categories"
    /\ \E c \in DOMAIN last.result :
           /\ Cardinality(Attached(c)) = 3
           /\ \E p \in Attached(c) : products[p].is_deleted /\ products[p].is_active
           /\ \E p \in Attached(c) : ~products[p].is_deleted /\ ~products[p].is_active
           /\ last.result[c] = 1

\* C19: deleting a product or a category is a soft delete: the record is flagged
\* is_deleted, it no longer appears in the default query set, and it is still
\* present in the all-records query set.
C19_SoftDelete ==
    /\ (last.op = "product_delete" /\ last.result = "success") =>
           /\ last.pk \in AllObjects(products)
           /\ products[last.pk].is_deleted
           /\ last.pk \notin Objects(products)
    /\ (last.op = "category_delete" /\ last.result = "success") =>
           /\ last.pk \in AllObjects(categories)
           /\ categories[last.pk].is_deleted
           /\ last.pk \notin Objects(categories)

\* a category was deleted after a product attached to it had been deleted
C19_Witness ==
    /\ last.op = "category_delete"
    /\ last.result = "success"
    /\ \E p \in DOMAIN products : <<p, last.pk>> \in links /\ products[p].is_deleted

C17_ServicesKeepStock ==
    last.op \in {"adjust_stock", "bulk_adjust_stock"} =>
        \A id \in DOMAIN last.before.products :
            last.before.products[id].product_type = "service"
                => products[id].stock = last.before.products[id].stock

\* C18 (as claimed): in product import (CSV and Excel) a category name that
\* differs only in letter case from an existing category's name is linked to
\* that category and no new category is created: no category an import creates
\* has, letter case aside, the name of a category that existed before it, so
\* importing the same rows twice creates no category the second time.
C18_ImportMatchesCategoriesIgnoringCase ==
    last.op \in {"import_csv", "import_excel"} =>
        \A c \in (Len(last.categories_before) + 1)..Len(categories) :
            \A c0 \in 1..Len(last.categories_before) :
                Lower(categories[c].name) # Lower(last.categories_before[c0].name)

\* C20 (as claimed): every operation that changes a product's stock
\* (adjust_stock, bulk_adjust_stock, update_product, product edit) adds a
\* StockMovement row for that product.
C20_EveryStockChangeAudited ==
    [][\A id \in DOMAIN products :
           products'[id].stock # products[id].stock
               => \E i \in (Len(movements) + 1)..Len(movements') :
                      movements'[i].product = id]_vars

\* the last operation was a stock tool call that changed the stock of product id
\* and left it at or below the product's threshold
LowAfterAdjustment(id) ==
    /\ last.op \in {"adjust_stock", "bulk_adjust_stock"}
    /\ products[id].stock # last.before.products[id].stock
    /\ products[id].stock <= products[id].low_stock_threshold

\* some low_stock_alert has been broadcast for product id
AlertedFor(id) == \E i \in 1..Len(alerts) : alerts[i].product = id

\* C21 (as claimed): after adjust_stock or bulk_adjust_stock changes a product's
\* stock and the new stock is at or below the product's threshold, a
\* low_stock_alert is eventually broadcast for that product.
C21_AdjustmentEventuallyAlerts ==
    \A id \in ProductIds : LowAfterAdjustment(id) ~> AlertedFor(id)

\* C22 (as claimed): the low_stock_alert raised for a stock_changed notification
\* carries the sender of that notification.
C22_AlertCarriesSender ==
    SignalHandled =>
        \A k \in 1..Len(AddedAlerts) : AddedAlerts[k].sender = last.sender

\* the step handles the notification the step before it handled
SameNotification ==
    /\ last.op = "stock_changed"
    /\ last'.sender = last.sender
    /\ last'.product_id = last.product_id
    /\ last'.new_quantity = last.new_quantity

\* C23: handling a stock_changed notification creates or modifies no Product,
\* StockMovement or StockAlert row; a notification for a product id that does
\* not exist produces no broadcast and no error; and handling the same
\* notification twice in a row makes the same broadcast decision both times.
C23_EvaluatorStatelessIdempotent ==
    [][last'.op = "stock_changed" =>
          /\ products' = products
          /\ movements' = movements
          /\ stockAlerts' = stockAlerts
          /\ SubSeq(alerts', 1, Len(alerts)) = alerts
          /\ (last'.product_id \notin DOMAIN products =>
                 /\ alerts' = alerts
                 /\ last'.result = "None")
          /\ (SameNotification =>
                 Len(alerts') - Len(alerts) = Len(alerts) - Len(last.before.alerts))
      ]_vars

\* the same notification has been handled twice in a row and was broadcast twice
C23_Witness ==
    /\ SignalHandled
    /\ Len(last.before.alerts) = 1
    /\ Len(alerts) = 2
    /\ alerts[1] = alerts[2]
    /\ products = last.before.products
    /\ movements = last.before.movements

\* ref occurs in field as written
Contains(field, ref) ==
    \E i \in 1..(Len(field) - Len(ref) + 1) : SubSeq(field, i, i + Len(ref) - 1) = ref

\* the products that match ref at each of the four levels, compared as written
MatchesExactly(prods, ref) ==
    <<{i \in DOMAIN prods : prods[i].sku = ref},
      {i \in DOMAIN prods : prods[i].ean13 = ref},
      {i \in DOMAIN prods : prods[i].name = ref},
      {i \in DOMAIN prods : Contains(prods[i].name, ref)}>>

\* the same with SKU and names compared ignoring case
MatchesIgnoringCase(prods, ref) ==
    <<{i \in DOMAIN prods : Lower(prods[i].sku) = Lower(ref)},
      {i \in DOMAIN prods : prods[i].ean13 = ref},
      {i \in DOMAIN prods : Lower(prods[i].name) = Lower(ref)},
      {i \in DOMAIN prods : Contains(Lower(prods[i].name), Lower(ref))}>>

\* the products of the first level that has any: the ones that may be chosen
FirstLevel(levels) ==
    LET hit == {n \in 1..Len(levels) : levels[n] # {}}
    IN  IF hit = {} THEN {} ELSE levels[Min(hit)]

\* an item the loop does not reject for a blank reference or a zero quantity
Usable(item) == Strip(item.reference) # <<>> /\ item.quantity # 0

C25_BoundedRetryTerminates ==
    /\ [](cmd.pc # "idle" =>
             /\ cmd.attempt <= max_attempts
             /\ \A k \in 1..Len(cmd.skipped) :
                    /\ cmd.skipped[k].attempts = max_attempts
                    /\ products[cmd.skipped[k].product].ean13 = <<>>)
    /\ (cmd.pc = "loop" ~> cmd.pc = "done")

\* the newest product was skipped after all its attempts collided, and the
\* command went on and gave the next product a code
C25_Witness ==
    /\ cmd.pc = "done"
    /\ cmd.skipped = <<[product |-> 3, attempts |-> max_attempts]>>
    /\ cmd.updated = 1
    /\ products[3].ean13 = <<>>
    /\ products[2].ean13 # <<>>

\* C26 (as claimed): after populate_ean13 has run, no two products hold the same
\* non-empty EAN-13.
C26_Ean13UniqueAfterPopulate ==
    cmd.pc = "done" =>
        \A i, j \in DOMAIN products :
            (i # j /\ products[i].ean13 # <<>>) => products[i].ean13 # products[j].ean13

\* a row with a missing name or a negative price, cost or stock
Invalid(row) ==
    \/ Strip(row.name) = <<>>
    \/ Get(row, "price", 0) < 0
    \/ Get(row, "cost", 0) < 0
    \/ Get(row, "stock", 0) < 0

\* what importing the rows that are in order, and only them, makes of the tables
WithoutInvalid(rows) ==
    ImportLoop([products |-> products, categories |-> categories, links |-> links,
                created |-> 0, updated |-> 0, errors |-> <<>>],
               SelectSeq(rows, LAMBDA row : ~Invalid(row)), 1, FALSE)

\* C27 (as claimed): in CSV import, every row with a missing name or a negative
\* price, cost or stock is reported in the errors list (under its line number,
\* the header being line 1) and changes no product; the other rows are applied
\* as if it were not in the file, and created and updated count them.
C27_InvalidRowsReported ==
    [][last'.op = "import_csv" =>
          /\ \A k \in 1..Len(last'.rows) :
                 Invalid(last'.rows[k]) =>
                     \E e \in 1..Len(last'.result.errors) :
                         last'.result.errors[e].line = k + 1
          /\ products' = WithoutInvalid(last'.rows).products
          /\ last'.result.created = WithoutInvalid(last'.rows).created
          /\ last'.result.updated = WithoutInvalid(last'.rows).updated
      ]_vars

\* an item adjust_stock would be called for: a reference that is not blank and
\* resolves to a product, with a quantity that is not zero
Resolves(prods, item) ==
    /\ Usable(item)
    /\ ResolveProduct(prods, Strip(item.reference)) # 0

\* adjust_stock called once for each such item of items[k..], in list order
RECURSIVE AdjustEach(_, _, _, _)
AdjustEach(st, items, k, reason) ==
    IF k > Len(items) THEN st
    ELSE AdjustEach(IF Resolves(st.products, items[k])
                    THEN AdjustStockOn(st, ResolveProduct(st.products,
                                               Strip(items[k].reference)),
                                       items[k].quantity, reason)
                    ELSE st,
                    items, k + 1, reason)

\* C28: bulk_adjust_stock over a list of items leaves the product stocks and
\* the StockMovement rows as calling adjust_stock once, in list order and with
\* the same reason, for each item that resolves and has a non-zero quantity
\* does; a product referenced by k items gets k audit rows and the sum of their
\* quantities; and the items that resolve are the adjusted list, the others
\* the not_found list, each in list order.
C28_BulkIsAdjustEach ==
    last.op = "bulk_adjust_stock" =>
        LET start == [products |-> last.before.products,
                      movements |-> last.before.movements]
            each == AdjustEach(start, last.items, 1, last.reason)
            applied == SelectSeq(last.items,
                                 LAMBDA item : Resolves(start.products, item))
            others == SelectSeq(last.items,
                                LAMBDA item : ~Resolves(start.products, item))
        IN  /\ products = each.products
            /\ movements = each.movements
            /\ \A id \in DOMAIN products :
                   LET mine == SelectSeq(applied, LAMBDA item :
                                   ResolveProduct(start.products,
                                                  Strip(item.reference)) = id)
                       rows == SelectSeq(AddedMovements, LAMBDA m : m.product = id)
                   IN  /\ Len(rows) = Len(mine)
                       /\ products[id].stock =
                              start.products[id].stock + SumQuantity(rows, id)
                       /\ \A k \in 1..Len(mine) :
                              /\ rows[k].quantity = Abs(mine[k].quantity)
                              /\ rows[k].movement_type =
                                     (IF mine[k].quantity > 0 THEN "in" ELSE "adjustment")
            /\ Len(last.result.adjusted) = Len(applied)
            /\ Len(last.result.not_found) = Len(others)
            /\ Len(last.result.adjusted) + Len(last.result.not_found) = Len(last.items)
            /\ \A k \in 1..Len(applied) :
                   last.result.adjusted[k].reference = Strip(applied[k].reference)
            /\ \A k \in 1..Len(others) :
                   last.result.not_found[k].reference = Strip(others[k].reference)

\* a delivery note that names the same product twice, with one line between
\* them that does not resolve: the product got both quantities and two rows
C28_Witness ==
    /\ last.op = "bulk_adjust_stock"
    /\ Len(last.items) = 3
    /\ Resolves(last.before.products, last.items[1])
    /\ ~Resolves(last.before.products, last.items[2])
    /\ last.items[3] = last.items[1]
    /\ Len(AddedMovements) = 2
    /\ AddedMovements[1].product = AddedMovements[2].product
    /\ products[AddedMovements[1].product].stock =
           last.before.products[AddedMovements[1].product].stock
               + 2 * last.items[1].quantity

\* the stock each product of the catalogue is installed with
InitialStock(id) == IF id = 1 THEN 100 ELSE 0

\* the sum of the quantities of the rows of product id that have the given type
RECURSIVE SumOfType(_, _, _)
SumOfType(rows, id, type) ==
    IF rows = <<>> THEN 0
    ELSE (IF Head(rows).product = id /\ Head(rows).movement_type = type
          THEN Head(rows).quantity ELSE 0) + SumOfType(Tail(rows), id, type)

C30_LowStockViewsAgree ==
    /\ last.op = "get_stock_alerts" =>
           \A id \in DOMAIN products :
               IsLowStock(products[id]) <=>
                   \E k \in 1..Len(last.result.alerts) :
                       last.result.alerts[k].sku = products[id].sku
    /\ (last.op = "list_products" /\ last.low_stock) =>
           \A id \in DOMAIN products :
               IsLowStock(products[id]) <=>
                   \E k \in 1..Len(last.result.products) :
                       last.result.products[k].id = id

====
